---- MODULE Spec2Model ----
(***************************************************************************)
(* Offer / transaction lifecycle engine of the article micro-service.      *)
(*                                                                         *)
(* Every request handler is an async function: between two awaited store   *)
(* calls other handlers, timer callbacks and sweeps may run.  A handler is *)
(* therefore modelled as a little process whose steps are its awaited      *)
(* store calls; the synchronous checks that follow a read belong to the    *)
(* step of that read.                                                      *)
(***************************************************************************)
EXTENDS Naturals, Integers, Sequences, FiniteSets, Bags, TLC

(* ---- bounds ---- *)
MaxReq == 2          \* requests that pass their checks in one behaviour
MaxInflight == 2     \* request handlers suspended at an await at one time
MaxPrice == 2        \* offered prices are 1..MaxPrice
MaxConn == 2         \* event-stream connections opened in one behaviour
MaxPublish == 2      \* sendToSeller calls in one behaviour
MaxNote == 2         \* Notification rows the read API is tried on

(* ---- fixed population ---- *)
Users == {"seller", "buyer", "other"}   \* request callers
Submitters == {"seller", "buyer"}       \* callers of createOffer
Owner == "seller"                      \* owner of the one catalogued article
ArticleId == 1
Admin == "admin"
Prices == 1..MaxPrice
Slots == 1..MaxInflight
Recipients == {"seller", "buyer"}       \* users that open an event stream
ConnIds == 1..MaxConn

OfferStatus == {"PENDING", "DENIED", "ACCEPTED", "DONE", "CANCELLED"}
TxStatus == {"PAYMENT_PENDING", "PAYMENT_CONFIRMED", "SHIPPED", "COMPLETED",
             "CANCELLED", "DISPUTED"}
Actions == {"ACCEPTED", "DENIED"}

VARIABLES
  article,        \* the Article row: [owner, published, boughtBy]
  offers,         \* Offer table, a sequence indexed by the autoincrement id
  transactions,   \* Transaction table, a sequence indexed by the autoincrement id
  notifications,  \* Notification table: a bag of [userId, type, ref]
  reqs,           \* request handlers suspended at an await, by slot
  confirm,        \* per transaction: position of its payment-confirmation timer
  expire,         \* the running cleanupExpiredTransactions sweep
  auto,           \* the running autoCompleteShippedTransactions sweep
  concluded,      \* history: offers whose conclude write has been applied
  started,        \* number of requests that passed their checks so far
  rerun,          \* a second run of a sweep, overlapping the first
  resp,           \* the last answer sent to a caller: [op, code]
  inbox,          \* Notification rows as the read API sees them
  emitters,       \* sseManager's Map: recipient -> its connections, in order
  sockets,        \* per connection: state of its response stream, events written
  published,      \* sendToSeller calls so far: [n, seller, note, sent] of the last
  keys,           \* sseManager's Map: the recipients that have an entry
  heartbeatInterval,  \* sseManager: TRUE while the 30 s interval is set
  lastPing        \* per connection: "fresh", or "stale" (over an hour old)

\* the state of the offer / transaction engine
engine == <<article, offers, transactions, notifications, reqs, confirm,
            expire, auto, concluded, started>>

\* the state of the subscriber registry
registry == <<emitters, sockets, published, keys, heartbeatInterval,
              lastPing>>

vars == <<article, offers, transactions, notifications, reqs, confirm,
          expire, auto, concluded, started, rerun, resp, inbox, emitters,
          sockets, published, keys, heartbeatInterval, lastPing>>

(* ---- helpers ---- *)
Idle == [op |-> "none", pc |-> "idle", caller |-> "none", target |-> 0,
         price |-> 0, action |-> "none", found |-> 0]


OfferIds == 1..Len(offers)
TxIds == 1..Len(transactions)

Note(u, t, r) == [userId |-> u, type |-> t, ref |-> r]

\* NotificationService.createNotification: one more Notification row
createNotification(bag, u, t, r) == bag (+) SetToBag({Note(u, t, r)})

Count(u, t, r) == CopiesIn(Note(u, t, r), notifications)

\* prisma.offer.findUnique({ where: { articleId_username } }): the id, or 0
findOffer(a, u) ==
  IF \E i \in OfferIds : offers[i].articleId = a /\ offers[i].username = u
  THEN CHOOSE i \in OfferIds : offers[i].articleId = a /\ offers[i].username = u
  ELSE 0

\* the store without the unique index: a create is never refused
UniqueViolation_NoIndex(a, u) == FALSE

\* @@unique([articleId, username]) as enforced by the store on create
UniqueViolation(a, u) ==
  \E i \in OfferIds : offers[i].articleId = a /\ offers[i].username = u

\* prisma.transaction.findFirst({ where: { offerId } }) found a row
existingTransaction(o) == \E t \in TxIds : transactions[t].offerId = o

SetStatus(table, i, s) == [table EXCEPT ![i].status = s]

FreeSlot(s) == reqs[s].op = "none"

\* handlers are interchangeable: a new one takes the lowest free slot
NextSlot == CHOOSE s \in Slots : FreeSlot(s) /\ \A q \in Slots : q < s => ~FreeSlot(q)

NewRequest(o, u, t, p) == [Idle EXCEPT !.op = o, !.pc = p, !.caller = u,
                                       !.target = t]

\* A request is received.  code is the status its synchronous checks answer
\* with, 0 when they all pass; a request answered by its checks leaves no
\* trace, one that passes them suspends at its next await.
Receive(code, r) ==
  /\ started < MaxReq
  /\ \E s \in Slots : FreeSlot(s)
  /\ IF code # 0
     THEN UNCHANGED <<reqs, started>>
     ELSE /\ reqs' = [reqs EXCEPT ![NextSlot] = r]
          /\ started' = started + 1

Advance(s, p) == reqs' = [reqs EXCEPT ![s].pc = p]

\* the response is sent and the handler returns
Finish(s) == reqs' = [reqs EXCEPT ![s] = Idle]

At(s, o, p) == reqs[s].op = o /\ reqs[s].pc = p

(* ---- initial state ---- *)
\* The store outlives the process.  At start-up it is empty, or holds one
\* earlier offer of the buyer in any status of the Status enum, or that offer
\* DONE with its transaction already shipped.
EarlierOffer(st) == [articleId |-> ArticleId, username |-> "buyer",
                     seller |-> Owner, price |-> 1, status |-> st]

EarlierTransaction(st) == [offerId |-> 1, buyerUsername |-> "buyer",
                           sellerUsername |-> Owner, status |-> st,
                           createdDate |-> "recent",
                           shippedAt |-> IF st = "SHIPPED" THEN "recent"
                                         ELSE "null",
                           disputeOpenedBy |-> "null"]

InitStore ==
  {[offers |-> <<>>, transactions |-> <<>>]}
  \cup {[offers |-> <<EarlierOffer(st)>>, transactions |-> <<>>] :
           st \in OfferStatus}
  \cup {[offers |-> <<EarlierOffer("DONE")>>,
         transactions |-> <<EarlierTransaction("SHIPPED")>>]}

\* Two more stores a start-up can find: the earlier offer DONE with its
\* transaction paid and not yet shipped, and the earlier offer ACCEPTED with
\* a transaction left PAYMENT_PENDING by a restart within the confirmation
\* delay (the timer lives in the memory of the process and is not re-armed).
RestartStore ==
  InitStore
  \cup {[offers |-> <<EarlierOffer("DONE")>>,
         transactions |-> <<EarlierTransaction("PAYMENT_CONFIRMED")>>],
        [offers |-> <<EarlierOffer("ACCEPTED")>>,
         transactions |-> <<EarlierTransaction("PAYMENT_PENDING")>>]}

\* no second sweep run, nothing answered yet
NoRun == [job |-> "none", pc |-> "idle", queue |-> <<>>]
NoAnswer == [op |-> "none", code |-> 0]

\* no sendToSeller call yet
NoCall == [n |-> 0, seller |-> "none", note |-> 0, sent |-> FALSE]

\* a response stream nobody has subscribed with yet
NoSocket == [state |-> "unused", seller |-> "none", pending |-> 0,
             log |-> <<>>]

InitWith(stores, rows) ==
  /\ article = [owner |-> Owner, published |-> TRUE, boughtBy |-> "none"]
  /\ \E st \in stores : /\ offers = st.offers
                        /\ transactions = st.transactions
  /\ confirm = [t \in 1..Len(transactions) |-> "done"]
  /\ notifications = EmptyBag
  /\ reqs = [s \in Slots |-> Idle]
  /\ expire = [pc |-> "idle", queue |-> <<>>]
  /\ auto = [pc |-> "idle", queue |-> <<>>]
  /\ concluded = {}
  /\ started = 0
  /\ rerun = NoRun
  /\ resp = NoAnswer
  /\ inbox \in rows
  /\ emitters = [r \in Recipients |-> <<>>]
  /\ sockets = [c \in ConnIds |-> NoSocket]
  /\ published = NoCall
  /\ keys = {}
  /\ heartbeatInterval = FALSE
  /\ lastPing = [c \in ConnIds |-> "none"]

\* no Notification row is read through the API
InitFrom(stores) == InitWith(stores, {<<>>})

Init == InitFrom(InitStore)

RestartInit == InitFrom(RestartStore)

(* ======================= OfferEngine ======================= *)

\* createOffer: the answer of the checks on the article read
createOfferCheck(u) ==
  IF ~article.published THEN 400
  ELSE IF article.owner = u THEN 400
  ELSE 0

\* createOffer: the request is received
createOfferStart(u, p) ==
  /\ Receive(createOfferCheck(u),
             [NewRequest("createOffer", u, ArticleId, "lookup") EXCEPT !.price = p])
  /\ UNCHANGED <<article, offers, transactions, notifications, confirm,
                 expire, auto, concluded>>

\* createOffer: lookup of the caller's existing offer
createOfferLookup(s) ==
  /\ At(s, "createOffer", "lookup")
  /\ LET f == findOffer(reqs[s].target, reqs[s].caller)
     IN reqs' = [reqs EXCEPT ![s].found = f,
                             ![s].pc = IF f # 0 THEN "update" ELSE "create"]
  /\ UNCHANGED <<article, offers, transactions, notifications, confirm,
                 expire, auto, concluded, started>>

\* the update without the status reset: only the price is overwritten
createOfferUpdate_PriceOnly(s) ==
  /\ At(s, "createOffer", "update")
  /\ offers' = [offers EXCEPT ![reqs[s].found].price = reqs[s].price]
  /\ Advance(s, "notifyUpdated")
  /\ UNCHANGED <<article, transactions, notifications, confirm,
                 expire, auto, concluded, started>>

\* createOffer: update of the existing row
createOfferUpdate(s) ==
  /\ At(s, "createOffer", "update")
  /\ offers' = [offers EXCEPT ![reqs[s].found].price = reqs[s].price,
                              ![reqs[s].found].status = "PENDING"]
  /\ Advance(s, "notifyUpdated")
  /\ UNCHANGED <<article, transactions, notifications, confirm,
                 expire, auto, concluded, started>>

\* createOffer: creation of a new row, refused by the unique index (P2002)
createOfferCreate(s) ==
  /\ At(s, "createOffer", "create")
  /\ IF UniqueViolation(reqs[s].target, reqs[s].caller)
     THEN /\ Finish(s)
          /\ UNCHANGED offers
     ELSE /\ offers' = Append(offers,
                 [articleId |-> reqs[s].target, username |-> reqs[s].caller,
                  seller |-> article.owner, price |-> reqs[s].price,
                  status |-> "PENDING"])
          /\ reqs' = [reqs EXCEPT ![s].found = Len(offers) + 1,
                                  ![s].pc = "notifyNew"]
  /\ UNCHANGED <<article, transactions, notifications, confirm,
                 expire, auto, concluded, started>>

\* createOffer: createOfferNotification and the response
createOfferNotify(s) ==
  /\ reqs[s].op = "createOffer"
  /\ reqs[s].pc \in {"notifyNew", "notifyUpdated"}
  /\ notifications' = createNotification(notifications,
        offers[reqs[s].found].seller,
        IF reqs[s].pc = "notifyNew" THEN "NEW_OFFER" ELSE "OFFER_UPDATED",
        reqs[s].found)
  /\ Finish(s)
  /\ UNCHANGED <<article, offers, transactions, confirm,
                 expire, auto, concluded, started>>

\* updateOfferStatusBySeller: the answer of the checks on input and offer read
updateOfferStatusBySellerCheck(u, o, a) ==
  IF a \notin Actions THEN 400
  ELSE IF o \notin OfferIds THEN 404
  ELSE IF offers[o].status \notin {"PENDING", "ACCEPTED"} THEN 400
  ELSE 0

\* updateOfferStatusBySeller: the request is received
updateOfferStatusBySellerStart(u, o, a) ==
  /\ Receive(updateOfferStatusBySellerCheck(u, o, a),
             [NewRequest("updateOfferStatusBySeller", u, o, "write") EXCEPT
                !.action = a])
  /\ UNCHANGED <<article, offers, transactions, notifications, confirm,
                 expire, auto, concluded>>

\* updateOfferStatusBySeller: the status write
updateOfferStatusBySellerWrite(s) ==
  /\ At(s, "updateOfferStatusBySeller", "write")
  /\ offers' = SetStatus(offers, reqs[s].target, "CANCELLED")
  /\ Advance(s, "notify")
  /\ UNCHANGED <<article, transactions, notifications, confirm,
                 expire, auto, concluded, started>>

\* updateOfferStatusBySeller: createOfferNotification and the response
updateOfferStatusBySellerNotify(s) ==
  /\ At(s, "updateOfferStatusBySeller", "notify")
  /\ notifications' = createNotification(notifications,
        offers[reqs[s].target].seller, "OFFER_CANCELLED", reqs[s].target)
  /\ Finish(s)
  /\ UNCHANGED <<article, offers, transactions, confirm,
                 expire, auto, concluded, started>>

\* concludeOfferByUser: the answer of the checks on the offer read
concludeOfferByUserCheck(u, o) ==
  IF o \notin OfferIds THEN 404
  ELSE IF offers[o].username # u THEN 403
  ELSE IF offers[o].status # "ACCEPTED" THEN 400
  ELSE 0

\* concludeOfferByUser: the request is received
concludeOfferByUserStart(u, o) ==
  /\ Receive(concludeOfferByUserCheck(u, o),
             NewRequest("concludeOfferByUser", u, o, "write"))
  /\ UNCHANGED <<article, offers, transactions, notifications, confirm,
                 expire, auto, concluded>>

\* concludeOfferByUser: prisma.$transaction writing offer and article
concludeOfferByUserWrite(s) ==
  /\ At(s, "concludeOfferByUser", "write")
  /\ offers' = SetStatus(offers, reqs[s].target, "DONE")
  /\ article' = [article EXCEPT !.boughtBy = reqs[s].caller,
                                !.published = FALSE]
  /\ concluded' = concluded \cup {reqs[s].target}
  /\ Advance(s, "notify")
  /\ UNCHANGED <<transactions, notifications, confirm,
                 expire, auto, started>>

\* concludeOfferByUser: createOfferNotification and the response
concludeOfferByUserNotify(s) ==
  /\ At(s, "concludeOfferByUser", "notify")
  /\ notifications' = createNotification(notifications,
        offers[reqs[s].target].seller, "OFFER_CONCLUDED", reqs[s].target)
  /\ Finish(s)
  /\ UNCHANGED <<article, offers, transactions, confirm,
                 expire, auto, concluded, started>>

\* cancelOfferByUser: the answer of the checks on the offer read
cancelOfferByUserCheck(u, o) ==
  IF o \notin OfferIds THEN 404
  ELSE IF offers[o].username # u THEN 403
  ELSE IF offers[o].status \notin {"PENDING", "ACCEPTED"} THEN 400
  ELSE 0

\* a cancelOfferByUser that writes before it has looked at the caller
cancelOfferByUserStart_WriteFirst(u, o) ==
  /\ Receive(cancelOfferByUserCheck(u, o),
             NewRequest("cancelOfferByUser", u, o, "notify"))
  /\ offers' = IF o \in OfferIds THEN SetStatus(offers, o, "CANCELLED")
               ELSE offers
  /\ UNCHANGED <<article, transactions, notifications, confirm,
                 expire, auto, concluded>>

\* cancelOfferByUser: the request is received
cancelOfferByUserStart(u, o) ==
  /\ Receive(cancelOfferByUserCheck(u, o),
             NewRequest("cancelOfferByUser", u, o, "write"))
  /\ UNCHANGED <<article, offers, transactions, notifications, confirm,
                 expire, auto, concluded>>

\* cancelOfferByUser: the status write
cancelOfferByUserWrite(s) ==
  /\ At(s, "cancelOfferByUser", "write")
  /\ offers' = SetStatus(offers, reqs[s].target, "CANCELLED")
  /\ Advance(s, "notify")
  /\ UNCHANGED <<article, transactions, notifications, confirm,
                 expire, auto, concluded, started>>

\* cancelOfferByUser: createOfferNotification and the response
cancelOfferByUserNotify(s) ==
  /\ At(s, "cancelOfferByUser", "notify")
  /\ notifications' = createNotification(notifications,
        offers[reqs[s].target].seller, "OFFER_CANCELLED", reqs[s].target)
  /\ Finish(s)
  /\ UNCHANGED <<article, offers, transactions, confirm,
                 expire, auto, concluded, started>>

(* ======================= TransactionEngine ======================= *)

\* initiateTransaction: the answer of the checks on input and offer read
initiateTransactionCheck(u, o, addr) ==
  IF ~addr THEN 400
  ELSE IF o \notin OfferIds THEN 404
  ELSE IF offers[o].username # u THEN 403
  ELSE IF offers[o].status # "ACCEPTED" THEN 400
  ELSE 0

\* initiateTransaction: the request is received
initiateTransactionStart(u, o, addr) ==
  /\ Receive(initiateTransactionCheck(u, o, addr),
             NewRequest("initiateTransaction", u, o, "lookup"))
  /\ UNCHANGED <<article, offers, transactions, notifications, confirm,
                 expire, auto, concluded>>

\* initiateTransaction: lookup of a transaction of the same offer
initiateTransactionLookup(s) ==
  /\ At(s, "initiateTransaction", "lookup")
  /\ IF existingTransaction(reqs[s].target)
     THEN Finish(s)
     ELSE Advance(s, "create")
  /\ UNCHANGED <<article, offers, transactions, notifications, confirm,
                 expire, auto, concluded, started>>

\* initiateTransaction: the create, the setTimeout and the response
initiateTransactionCreate(s) ==
  /\ At(s, "initiateTransaction", "create")
  /\ transactions' = Append(transactions,
        [offerId |-> reqs[s].target,
         buyerUsername |-> reqs[s].caller,
         sellerUsername |-> offers[reqs[s].target].seller,
         status |-> "PAYMENT_PENDING",
         createdDate |-> "recent", shippedAt |-> "null",
         disputeOpenedBy |-> "null"])
  /\ confirm' = Append(confirm, "pending")
  /\ Finish(s)
  /\ UNCHANGED <<article, offers, notifications, expire, auto, concluded,
                 started>>

\* setTimeout callback of initiateTransaction: the transaction update
confirmPaymentTransaction(t) ==
  /\ t \in TxIds
  /\ confirm[t] = "pending"
  /\ transactions' = SetStatus(transactions, t, "PAYMENT_CONFIRMED")
  /\ confirm' = [confirm EXCEPT ![t] = "offer"]
  /\ UNCHANGED <<article, offers, notifications, reqs, expire, auto,
                 concluded, started>>

\* setTimeout callback of initiateTransaction: the offer update
confirmPaymentOffer(t) ==
  /\ t \in TxIds
  /\ confirm[t] = "offer"
  /\ offers' = SetStatus(offers, transactions[t].offerId, "DONE")
  /\ confirm' = [confirm EXCEPT ![t] = "notify"]
  /\ UNCHANGED <<article, transactions, notifications, reqs, expire, auto,
                 concluded, started>>

\* setTimeout callback of initiateTransaction: the two notifications
confirmPaymentNotify(t) ==
  /\ t \in TxIds
  /\ confirm[t] = "notify"
  /\ notifications' = createNotification(
        createNotification(notifications,
           transactions[t].sellerUsername, "PAYMENT_CONFIRMED", t),
        transactions[t].buyerUsername, "PAYMENT_CONFIRMED", t)
  /\ confirm' = [confirm EXCEPT ![t] = "done"]
  /\ UNCHANGED <<article, offers, transactions, reqs, expire, auto,
                 concluded, started>>

\* markAsShipped: the answer of the checks on input and transaction read
markAsShippedCheck(u, t, tracking) ==
  IF ~tracking THEN 400
  ELSE IF t \notin TxIds THEN 404
  ELSE IF transactions[t].sellerUsername # u THEN 403
  ELSE IF transactions[t].status # "PAYMENT_CONFIRMED" THEN 400
  ELSE 0

\* markAsShipped: the request is received
markAsShippedStart(u, t, tracking) ==
  /\ Receive(markAsShippedCheck(u, t, tracking),
             NewRequest("markAsShipped", u, t, "write"))
  /\ UNCHANGED <<article, offers, transactions, notifications, confirm,
                 expire, auto, concluded>>

\* markAsShipped: the transaction update
markAsShippedWrite(s) ==
  /\ At(s, "markAsShipped", "write")
  /\ transactions' = [transactions EXCEPT
                        ![reqs[s].target].status = "SHIPPED",
                        ![reqs[s].target].shippedAt = "recent"]
  /\ Advance(s, "notify")
  /\ UNCHANGED <<article, offers, notifications, confirm, expire, auto,
                 concluded, started>>

\* markAsShipped: the notification and the response
markAsShippedNotify(s) ==
  /\ At(s, "markAsShipped", "notify")
  /\ notifications' = createNotification(notifications,
        transactions[reqs[s].target].buyerUsername, "ITEM_SHIPPED",
        reqs[s].target)
  /\ Finish(s)
  /\ UNCHANGED <<article, offers, transactions, confirm, expire, auto,
                 concluded, started>>

\* confirmDelivery: the answer of the checks on the transaction read
confirmDeliveryCheck(u, t) ==
  IF t \notin TxIds THEN 404
  ELSE IF transactions[t].buyerUsername # u THEN 403
  ELSE IF transactions[t].status # "SHIPPED" THEN 400
  ELSE 0

\* confirmDelivery: the request is received
confirmDeliveryStart(u, t) ==
  /\ Receive(confirmDeliveryCheck(u, t),
             NewRequest("confirmDelivery", u, t, "write"))
  /\ UNCHANGED <<article, offers, transactions, notifications, confirm,
                 expire, auto, concluded>>

\* confirmDelivery: the transaction update
confirmDeliveryWrite(s) ==
  /\ At(s, "confirmDelivery", "write")
  /\ transactions' = SetStatus(transactions, reqs[s].target, "COMPLETED")
  /\ Advance(s, "article")
  /\ UNCHANGED <<article, offers, notifications, confirm, expire, auto,
                 concluded, started>>

\* confirmDelivery: the article update
confirmDeliveryArticle(s) ==
  /\ At(s, "confirmDelivery", "article")
  /\ article' = [article EXCEPT !.boughtBy = reqs[s].caller,
                                !.published = FALSE]
  /\ Advance(s, "notify")
  /\ UNCHANGED <<offers, transactions, notifications, confirm, expire, auto,
                 concluded, started>>

\* confirmDelivery: the two notifications and the response
confirmDeliveryNotify(s) ==
  /\ At(s, "confirmDelivery", "notify")
  /\ notifications' = createNotification(
        createNotification(notifications,
           transactions[reqs[s].target].sellerUsername, "PAYMENT_RELEASED",
           reqs[s].target),
        reqs[s].caller, "TRANSACTION_COMPLETED", reqs[s].target)
  /\ Finish(s)
  /\ UNCHANGED <<article, offers, transactions, confirm, expire, auto,
                 concluded, started>>

\* openDispute: the answer of the checks on input and transaction read
openDisputeCheck(u, t, reason) ==
  IF ~reason THEN 400
  ELSE IF t \notin TxIds THEN 404
  ELSE IF transactions[t].buyerUsername # u /\ transactions[t].sellerUsername # u
       THEN 403
  ELSE IF transactions[t].status \in {"COMPLETED", "DISPUTED"} THEN 400
  ELSE 0

\* openDispute: the request is received
openDisputeStart(u, t, reason) ==
  /\ Receive(openDisputeCheck(u, t, reason),
             NewRequest("openDispute", u, t, "write"))
  /\ UNCHANGED <<article, offers, transactions, notifications, confirm,
                 expire, auto, concluded>>

\* openDispute: the transaction update
openDisputeWrite(s) ==
  /\ At(s, "openDispute", "write")
  /\ transactions' = [transactions EXCEPT
                        ![reqs[s].target].status = "DISPUTED",
                        ![reqs[s].target].disputeOpenedBy = reqs[s].caller]
  /\ Advance(s, "notify")
  /\ UNCHANGED <<article, offers, notifications, confirm, expire, auto,
                 concluded, started>>

\* openDispute: the two notifications and the response
openDisputeNotify(s) ==
  /\ At(s, "openDispute", "notify")
  /\ LET tx == transactions[reqs[s].target]
         otherParty == IF reqs[s].caller = tx.buyerUsername
                       THEN tx.sellerUsername ELSE tx.buyerUsername
     IN notifications' = createNotification(
           createNotification(notifications, otherParty,
              "TRANSACTION_DISPUTED", reqs[s].target),
           Admin, "DISPUTE_OPENED", reqs[s].target)
  /\ Finish(s)
  /\ UNCHANGED <<article, offers, transactions, confirm, expire, auto,
                 concluded, started>>

\* cancelTransaction: the answer of the checks on the transaction read
cancelTransactionCheck(u, t) ==
  IF t \notin TxIds THEN 404
  ELSE IF transactions[t].buyerUsername # u THEN 403
  ELSE IF transactions[t].status # "PAYMENT_PENDING" THEN 400
  ELSE 0

\* cancelTransaction: the request is received
cancelTransactionStart(u, t) ==
  /\ Receive(cancelTransactionCheck(u, t),
             NewRequest("cancelTransaction", u, t, "write"))
  /\ UNCHANGED <<article, offers, transactions, notifications, confirm,
                 expire, auto, concluded>>

\* cancelTransaction: the transaction update
cancelTransactionWrite(s) ==
  /\ At(s, "cancelTransaction", "write")
  /\ transactions' = SetStatus(transactions, reqs[s].target, "CANCELLED")
  /\ Advance(s, "offer")
  /\ UNCHANGED <<article, offers, notifications, confirm, expire, auto,
                 concluded, started>>

\* cancelTransaction: the offer update
cancelTransactionOffer(s) ==
  /\ At(s, "cancelTransaction", "offer")
  /\ offers' = SetStatus(offers, transactions[reqs[s].target].offerId,
                         "ACCEPTED")
  /\ Advance(s, "notify")
  /\ UNCHANGED <<article, transactions, notifications, confirm, expire, auto,
                 concluded, started>>

\* cancelTransaction: the notification and the response
cancelTransactionNotify(s) ==
  /\ At(s, "cancelTransaction", "notify")
  /\ notifications' = createNotification(notifications,
        transactions[reqs[s].target].sellerUsername,
        "TRANSACTION_CANCELLED", reqs[s].target)
  /\ Finish(s)
  /\ UNCHANGED <<article, offers, transactions, confirm, expire, auto,
                 concluded, started>>

(* ======================= time and the sweeps ======================= *)

\* 24 hours have passed since transaction t was created
ExpiryAgeReached(t) ==
  /\ t \in TxIds
  /\ transactions[t].createdDate = "recent"
  /\ transactions' = [transactions EXCEPT ![t].createdDate = "old"]
  /\ UNCHANGED <<article, offers, notifications, reqs, confirm, expire, auto,
                 concluded, started>>

\* 7 days have passed since transaction t was shipped
ShippedAgeReached(t) ==
  /\ t \in TxIds
  /\ transactions[t].shippedAt = "recent"
  /\ transactions' = [transactions EXCEPT ![t].shippedAt = "old"]
  /\ UNCHANGED <<article, offers, notifications, reqs, confirm, expire, auto,
                 concluded, started>>

\* the rows a findMany returns, by ascending id, each with its included offer
RECURSIVE Selected(_, _)
Selected(i, match) ==
  IF i > Len(transactions) THEN <<>>
  ELSE (IF i \in match
        THEN <<[id |-> i,
                offerStatus |-> offers[transactions[i].offerId].status]>>
        ELSE <<>>) \o Selected(i + 1, match)

IsExpired(i) == /\ transactions[i].status = "PAYMENT_PENDING"
                /\ transactions[i].createdDate = "old"

IsOverdue(i) == /\ transactions[i].status = "SHIPPED"
                /\ transactions[i].shippedAt = "old"

\* cleanupExpiredTransactions: the findMany
cleanupExpiredTransactionsStart ==
  /\ expire.pc = "idle"
  /\ LET sel == Selected(1, {i \in TxIds : IsExpired(i)})
     IN expire' = IF sel = <<>> THEN expire
                  ELSE [pc |-> "tx", queue |-> sel]
  /\ UNCHANGED <<article, offers, transactions, notifications, reqs, confirm,
                 auto, concluded, started>>

\* cleanupExpiredTransactions: the transaction update of the loop body
cleanupExpiredTransactionsTransaction ==
  /\ expire.pc = "tx"
  /\ transactions' = SetStatus(transactions, Head(expire.queue).id,
                               "CANCELLED")
  /\ expire' = [expire EXCEPT !.pc =
        IF Head(expire.queue).offerStatus = "DONE" THEN "offer" ELSE "notify"]
  /\ UNCHANGED <<article, offers, notifications, reqs, confirm, auto,
                 concluded, started>>

\* cleanupExpiredTransactions: the offer update of the loop body
cleanupExpiredTransactionsOffer ==
  /\ expire.pc = "offer"
  /\ offers' = SetStatus(offers,
        transactions[Head(expire.queue).id].offerId, "ACCEPTED")
  /\ expire' = [expire EXCEPT !.pc = "notify"]
  /\ UNCHANGED <<article, transactions, notifications, reqs, confirm, auto,
                 concluded, started>>

\* cleanupExpiredTransactions: the two notifications of the loop body
cleanupExpiredTransactionsNotify ==
  /\ expire.pc = "notify"
  /\ LET t == Head(expire.queue).id
     IN notifications' = createNotification(
           createNotification(notifications,
              transactions[t].buyerUsername, "TRANSACTION_CANCELLED", t),
           transactions[t].sellerUsername, "TRANSACTION_CANCELLED", t)
  /\ expire' = IF Len(expire.queue) = 1
               THEN [pc |-> "idle", queue |-> <<>>]
               ELSE [pc |-> "tx", queue |-> Tail(expire.queue)]
  /\ UNCHANGED <<article, offers, transactions, reqs, confirm, auto,
                 concluded, started>>

\* autoCompleteShippedTransactions: the findMany
autoCompleteShippedTransactionsStart ==
  /\ auto.pc = "idle"
  /\ LET sel == Selected(1, {i \in TxIds : IsOverdue(i)})
     IN auto' = IF sel = <<>> THEN auto
                ELSE [pc |-> "tx", queue |-> sel]
  /\ UNCHANGED <<article, offers, transactions, notifications, reqs, confirm,
                 expire, concluded, started>>

\* autoCompleteShippedTransactions: the transaction update of the loop body
autoCompleteShippedTransactionsTransaction ==
  /\ auto.pc = "tx"
  /\ transactions' = SetStatus(transactions, Head(auto.queue).id, "COMPLETED")
  /\ auto' = [auto EXCEPT !.pc = "article"]
  /\ UNCHANGED <<article, offers, notifications, reqs, confirm, expire,
                 concluded, started>>

\* autoCompleteShippedTransactions: the article update of the loop body
autoCompleteShippedTransactionsArticle ==
  /\ auto.pc = "article"
  /\ article' = [article EXCEPT
        !.boughtBy = transactions[Head(auto.queue).id].buyerUsername,
        !.published = FALSE]
  /\ auto' = [auto EXCEPT !.pc = "notify"]
  /\ UNCHANGED <<offers, transactions, notifications, reqs, confirm, expire,
                 concluded, started>>

\* autoCompleteShippedTransactions: the two notifications of the loop body
autoCompleteShippedTransactionsNotify ==
  /\ auto.pc = "notify"
  /\ LET t == Head(auto.queue).id
     IN notifications' = createNotification(
           createNotification(notifications,
              transactions[t].sellerUsername, "PAYMENT_RELEASED", t),
           transactions[t].buyerUsername, "TRANSACTION_COMPLETED", t)
  /\ auto' = IF Len(auto.queue) = 1
             THEN [pc |-> "idle", queue |-> <<>>]
             ELSE [pc |-> "tx", queue |-> Tail(auto.queue)]
  /\ UNCHANGED <<article, offers, transactions, reqs, confirm, expire,
                 concluded, started>>

\* a step of the engine: the registry, the read API and the answers are not
\* involved
Engine(A) == A /\ UNCHANGED <<rerun, resp, inbox, registry>>

Next ==
  \/ \E u \in Submitters, p \in Prices : Engine(createOfferStart(u, p))
  \/ \E s \in Slots : Engine(createOfferLookup(s))
  \/ \E s \in Slots : Engine(createOfferUpdate(s))
  \/ \E s \in Slots : Engine(createOfferCreate(s))
  \/ \E s \in Slots : Engine(createOfferNotify(s))
  \/ \E u \in Users, o \in OfferIds, a \in Actions :
        Engine(updateOfferStatusBySellerStart(u, o, a))
  \/ \E s \in Slots : Engine(updateOfferStatusBySellerWrite(s))
  \/ \E s \in Slots : Engine(updateOfferStatusBySellerNotify(s))
  \/ \E u \in Users, o \in OfferIds : Engine(concludeOfferByUserStart(u, o))
  \/ \E s \in Slots : Engine(concludeOfferByUserWrite(s))
  \/ \E s \in Slots : Engine(concludeOfferByUserNotify(s))
  \/ \E u \in Users, o \in OfferIds : Engine(cancelOfferByUserStart(u, o))
  \/ \E s \in Slots : Engine(cancelOfferByUserWrite(s))
  \/ \E s \in Slots : Engine(cancelOfferByUserNotify(s))
  \/ \E u \in Users, o \in OfferIds, addr \in BOOLEAN :
        Engine(initiateTransactionStart(u, o, addr))
  \/ \E s \in Slots : Engine(initiateTransactionLookup(s))
  \/ \E s \in Slots : Engine(initiateTransactionCreate(s))
  \/ \E t \in TxIds : Engine(confirmPaymentTransaction(t))
  \/ \E t \in TxIds : Engine(confirmPaymentOffer(t))
  \/ \E t \in TxIds : Engine(confirmPaymentNotify(t))
  \/ \E u \in Users, t \in TxIds, tracking \in BOOLEAN :
        Engine(markAsShippedStart(u, t, tracking))
  \/ \E s \in Slots : Engine(markAsShippedWrite(s))
  \/ \E s \in Slots : Engine(markAsShippedNotify(s))
  \/ \E u \in Users, t \in TxIds : Engine(confirmDeliveryStart(u, t))
  \/ \E s \in Slots : Engine(confirmDeliveryWrite(s))
  \/ \E s \in Slots : Engine(confirmDeliveryArticle(s))
  \/ \E s \in Slots : Engine(confirmDeliveryNotify(s))
  \/ \E u \in Users, t \in TxIds, reason \in BOOLEAN :
        Engine(openDisputeStart(u, t, reason))
  \/ \E s \in Slots : Engine(openDisputeWrite(s))
  \/ \E s \in Slots : Engine(openDisputeNotify(s))
  \/ \E u \in Users, t \in TxIds : Engine(cancelTransactionStart(u, t))
  \/ \E s \in Slots : Engine(cancelTransactionWrite(s))
  \/ \E s \in Slots : Engine(cancelTransactionOffer(s))
  \/ \E s \in Slots : Engine(cancelTransactionNotify(s))
  \/ \E t \in TxIds : Engine(ExpiryAgeReached(t))
  \/ \E t \in TxIds : Engine(ShippedAgeReached(t))
  \/ Engine(cleanupExpiredTransactionsStart)
  \/ Engine(cleanupExpiredTransactionsTransaction)
  \/ Engine(cleanupExpiredTransactionsOffer)
  \/ Engine(cleanupExpiredTransactionsNotify)
  \/ Engine(autoCompleteShippedTransactionsStart)
  \/ Engine(autoCompleteShippedTransactionsTransaction)
  \/ Engine(autoCompleteShippedTransactionsArticle)
  \/ Engine(autoCompleteShippedTransactionsNotify)

Spec == Init /\ [][Next]_vars

\* What the running process does by itself or on request: app.js schedules
\* the expiry sweep (and the notification cleanup); nothing in the program
\* calls autoCompleteShippedTransactions.
CronNext ==
  \/ \E u \in Submitters, p \in Prices : Engine(createOfferStart(u, p))
  \/ \E s \in Slots : Engine(createOfferLookup(s))
  \/ \E s \in Slots : Engine(createOfferUpdate(s))
  \/ \E s \in Slots : Engine(createOfferCreate(s))
  \/ \E s \in Slots : Engine(createOfferNotify(s))
  \/ \E u \in Users, o \in OfferIds, a \in Actions :
        Engine(updateOfferStatusBySellerStart(u, o, a))
  \/ \E s \in Slots : Engine(updateOfferStatusBySellerWrite(s))
  \/ \E s \in Slots : Engine(updateOfferStatusBySellerNotify(s))
  \/ \E u \in Users, o \in OfferIds : Engine(concludeOfferByUserStart(u, o))
  \/ \E s \in Slots : Engine(concludeOfferByUserWrite(s))
  \/ \E s \in Slots : Engine(concludeOfferByUserNotify(s))
  \/ \E u \in Users, o \in OfferIds : Engine(cancelOfferByUserStart(u, o))
  \/ \E s \in Slots : Engine(cancelOfferByUserWrite(s))
  \/ \E s \in Slots : Engine(cancelOfferByUserNotify(s))
  \/ \E u \in Users, o \in OfferIds, addr \in BOOLEAN :
        Engine(initiateTransactionStart(u, o, addr))
  \/ \E s \in Slots : Engine(initiateTransactionLookup(s))
  \/ \E s \in Slots : Engine(initiateTransactionCreate(s))
  \/ \E t \in TxIds : Engine(confirmPaymentTransaction(t))
  \/ \E t \in TxIds : Engine(confirmPaymentOffer(t))
  \/ \E t \in TxIds : Engine(confirmPaymentNotify(t))
  \/ \E u \in Users, t \in TxIds, tracking \in BOOLEAN :
        Engine(markAsShippedStart(u, t, tracking))
  \/ \E s \in Slots : Engine(markAsShippedWrite(s))
  \/ \E s \in Slots : Engine(markAsShippedNotify(s))
  \/ \E u \in Users, t \in TxIds : Engine(confirmDeliveryStart(u, t))
  \/ \E s \in Slots : Engine(confirmDeliveryWrite(s))
  \/ \E s \in Slots : Engine(confirmDeliveryArticle(s))
  \/ \E s \in Slots : Engine(confirmDeliveryNotify(s))
  \/ \E u \in Users, t \in TxIds, reason \in BOOLEAN :
        Engine(openDisputeStart(u, t, reason))
  \/ \E s \in Slots : Engine(openDisputeWrite(s))
  \/ \E s \in Slots : Engine(openDisputeNotify(s))
  \/ \E u \in Users, t \in TxIds : Engine(cancelTransactionStart(u, t))
  \/ \E s \in Slots : Engine(cancelTransactionWrite(s))
  \/ \E s \in Slots : Engine(cancelTransactionOffer(s))
  \/ \E s \in Slots : Engine(cancelTransactionNotify(s))
  \/ \E t \in TxIds : Engine(ExpiryAgeReached(t))
  \/ \E t \in TxIds : Engine(ShippedAgeReached(t))
  \/ Engine(cleanupExpiredTransactionsStart)
  \/ Engine(cleanupExpiredTransactionsTransaction)
  \/ Engine(cleanupExpiredTransactionsOffer)
  \/ Engine(cleanupExpiredTransactionsNotify)

\* node-cron fires the transaction cleanup job every day and the event loop
\* resumes a job after each of its awaits: a step of the expiry sweep that
\* can be taken eventually is.  Requests are at the callers' discretion.
CronSpec ==
  /\ Init
  /\ [][CronNext]_vars
  /\ WF_vars(Engine(cleanupExpiredTransactionsStart))
  /\ WF_vars(Engine(cleanupExpiredTransactionsTransaction))
  /\ WF_vars(Engine(cleanupExpiredTransactionsOffer))
  /\ WF_vars(Engine(cleanupExpiredTransactionsNotify))
  /\ WF_vars(\E t \in TxIds : Engine(confirmPaymentTransaction(t)))
  /\ WF_vars(\E t \in TxIds : Engine(confirmPaymentOffer(t)))
  /\ WF_vars(\E t \in TxIds : Engine(confirmPaymentNotify(t)))

\* the same program started on a store of RestartStore
RestartSpec == RestartInit /\ [][Next]_vars

\* The event loop runs a due timer callback and resumes it after each of its
\* awaits: a payment confirmation that can take a step eventually takes it.
FairSpec ==
  /\ Spec
  /\ WF_vars(\E t \in TxIds : Engine(confirmPaymentTransaction(t)))
  /\ WF_vars(\E t \in TxIds : Engine(confirmPaymentOffer(t)))
  /\ WF_vars(\E t \in TxIds : Engine(confirmPaymentNotify(t)))

(* ======================= two runs of one sweep ======================= *)

Jobs == {"cleanupExpiredTransactions", "autoCompleteShippedTransactions"}

\* the status a job writes, the rows its findMany matches
Target(job) == IF job = "cleanupExpiredTransactions" THEN "CANCELLED"
               ELSE "COMPLETED"

Matching(job) == IF job = "cleanupExpiredTransactions"
                 THEN {i \in TxIds : IsExpired(i)}
                 ELSE {i \in TxIds : IsOverdue(i)}

\* a second call of the job, by another cron tick or another process: the
\* findMany.  Nothing in either function knows of a run in progress.
SecondRunStart(job) ==
  /\ rerun.pc = "idle"
  /\ Selected(1, Matching(job)) # <<>>
  /\ rerun' = [job |-> job, pc |-> "tx", queue |-> Selected(1, Matching(job))]
  /\ UNCHANGED <<engine, resp, inbox, registry>>

\* the second run: the transaction update of the loop body
SecondRunTransaction ==
  /\ rerun.pc = "tx"
  /\ transactions' = SetStatus(transactions, Head(rerun.queue).id,
                               Target(rerun.job))
  /\ rerun' = [rerun EXCEPT !.pc =
        IF rerun.job = "autoCompleteShippedTransactions" THEN "article"
        ELSE IF Head(rerun.queue).offerStatus = "DONE" THEN "offer"
        ELSE "notify"]
  /\ UNCHANGED <<article, offers, notifications, reqs, confirm, expire, auto,
                 concluded, started, resp, inbox, registry>>

\* the second run of cleanupExpiredTransactions: the offer update
SecondRunOffer ==
  /\ rerun.pc = "offer"
  /\ offers' = SetStatus(offers,
        transactions[Head(rerun.queue).id].offerId, "ACCEPTED")
  /\ rerun' = [rerun EXCEPT !.pc = "notify"]
  /\ UNCHANGED <<article, transactions, notifications, reqs, confirm, expire,
                 auto, concluded, started, resp, inbox, registry>>

\* the second run of autoCompleteShippedTransactions: the article update
SecondRunArticle ==
  /\ rerun.pc = "article"
  /\ article' = [article EXCEPT
        !.boughtBy = transactions[Head(rerun.queue).id].buyerUsername,
        !.published = FALSE]
  /\ rerun' = [rerun EXCEPT !.pc = "notify"]
  /\ UNCHANGED <<offers, transactions, notifications, reqs, confirm, expire,
                 auto, concluded, started, resp, inbox, registry>>

\* the second run: the two notifications of the loop body
SecondRunNotify ==
  /\ rerun.pc = "notify"
  /\ LET t == Head(rerun.queue).id
     IN notifications' =
          IF rerun.job = "cleanupExpiredTransactions"
          THEN createNotification(
                 createNotification(notifications,
                    transactions[t].buyerUsername, "TRANSACTION_CANCELLED", t),
                 transactions[t].sellerUsername, "TRANSACTION_CANCELLED", t)
          ELSE createNotification(
                 createNotification(notifications,
                    transactions[t].sellerUsername, "PAYMENT_RELEASED", t),
                 transactions[t].buyerUsername, "TRANSACTION_COMPLETED", t)
  /\ rerun' = IF Len(rerun.queue) = 1 THEN NoRun
              ELSE [rerun EXCEPT !.pc = "tx", !.queue = Tail(rerun.queue)]
  /\ UNCHANGED <<article, offers, transactions, reqs, confirm, expire, auto,
                 concluded, started, resp, inbox, registry>>

\* Buyers and sellers who negotiate, pay and ship but never cancel, confirm
\* or dispute a transaction themselves, and the two sweeps, each of which may
\* be called again while its first run is still in its loop.
SweepNext ==
  \/ \E u \in Submitters, p \in Prices : Engine(createOfferStart(u, p))
  \/ \E s \in Slots : Engine(createOfferLookup(s))
  \/ \E s \in Slots : Engine(createOfferUpdate(s))
  \/ \E s \in Slots : Engine(createOfferCreate(s))
  \/ \E s \in Slots : Engine(createOfferNotify(s))
  \/ \E u \in Users, o \in OfferIds, a \in Actions :
        Engine(updateOfferStatusBySellerStart(u, o, a))
  \/ \E s \in Slots : Engine(updateOfferStatusBySellerWrite(s))
  \/ \E s \in Slots : Engine(updateOfferStatusBySellerNotify(s))
  \/ \E u \in Users, o \in OfferIds : Engine(concludeOfferByUserStart(u, o))
  \/ \E s \in Slots : Engine(concludeOfferByUserWrite(s))
  \/ \E s \in Slots : Engine(concludeOfferByUserNotify(s))
  \/ \E u \in Users, o \in OfferIds, addr \in BOOLEAN :
        Engine(initiateTransactionStart(u, o, addr))
  \/ \E s \in Slots : Engine(initiateTransactionLookup(s))
  \/ \E s \in Slots : Engine(initiateTransactionCreate(s))
  \/ \E t \in TxIds : Engine(ExpiryAgeReached(t))
  \/ \E t \in TxIds : Engine(ShippedAgeReached(t))
  \/ Engine(cleanupExpiredTransactionsStart)
  \/ Engine(cleanupExpiredTransactionsTransaction)
  \/ Engine(cleanupExpiredTransactionsOffer)
  \/ Engine(cleanupExpiredTransactionsNotify)
  \/ Engine(autoCompleteShippedTransactionsStart)
  \/ Engine(autoCompleteShippedTransactionsTransaction)
  \/ Engine(autoCompleteShippedTransactionsArticle)
  \/ Engine(autoCompleteShippedTransactionsNotify)
  \/ \E job \in Jobs : SecondRunStart(job)
  \/ SecondRunTransaction
  \/ SecondRunOffer
  \/ SecondRunArticle
  \/ SecondRunNotify

SweepSpec == Init /\ [][SweepNext]_vars

(* ======================= sseManager and the notifier ======================= *)

\* A response stream is "open" (writable) or "closed" (destroyed,
\* writableEnded, or a write to it throws).  Its log holds the sendToSeller
\* events written to it, each with the number of its call and the id of the
\* Notification row it carries (0: none); the CONNECTION_ESTABLISHED greeting
\* and the heartbeats are not kept.
Live(c) == sockets[c].state = "open"

Connections(r) == {emitters[r][i] : i \in DOMAIN emitters[r]}

Registered == UNION {Connections(r) : r \in Recipients}

\* getTotalConnections() on the arrays m
getTotalConnections(m) ==
  Cardinality(UNION {{<<r, i>> : i \in DOMAIN m[r]} : r \in Recipients})

\* "if (getTotalConnections() === 0) stopHeartbeat()" on the arrays m
stopHeartbeat(m) ==
  IF getTotalConnections(m) = 0 THEN FALSE ELSE heartbeatInterval

\* the lastPing stamps f of the connection objects still held by the arrays
\* m; an object dropped from the Map is not looked at again
Held(m, f) ==
  [c \in ConnIds |->
     IF \E r \in Recipients : \E i \in DOMAIN m[r] : m[r][i] = c THEN f[c]
     ELSE "none"]

\* emitters.get(seller) is an array with a connection in it
Has(r) == r \in keys /\ emitters[r] # <<>>

\* the stream route: addEmitter(seller, res) and the three listeners
addEmitter(r) ==
  /\ \E c \in ConnIds : sockets[c].state = "unused"
  /\ LET c == CHOOSE c \in ConnIds :
                /\ sockets[c].state = "unused"
                /\ \A d \in ConnIds : d < c => sockets[d].state # "unused"
     IN /\ emitters' = [emitters EXCEPT ![r] = Append(@, c)]
        /\ sockets' = [sockets EXCEPT ![c] =
              [NoSocket EXCEPT !.state = "open", !.seller = r]]
        /\ lastPing' = [lastPing EXCEPT ![c] = "fresh"]
  /\ keys' = keys \cup {r}
  /\ heartbeatInterval' =
       IF getTotalConnections(emitters') = 1 /\ ~heartbeatInterval THEN TRUE
       ELSE heartbeatInterval
  /\ UNCHANGED <<engine, rerun, resp, inbox, published>>

\* The remote side closes or the transport fails: the stream stops being
\* writable, and n of the listeners ('close' and 'error' of the request,
\* 'error' of the response) are due.
Disconnect(c, n) ==
  /\ Live(c)
  /\ sockets' = [sockets EXCEPT ![c].state = "closed", ![c].pending = n]
  /\ UNCHANGED <<engine, rerun, resp, inbox, emitters, published, keys,
                 heartbeatInterval, lastPing>>

\* removeEmitter: the entry and the timer once the array is `after`; spliced
\* tells whether the splice took place
removeEmitterTail(r, spliced, after) ==
  /\ keys' = IF spliced /\ after = <<>> THEN keys \ {r} ELSE keys
  /\ heartbeatInterval' = IF spliced /\ after = <<>>
                          THEN stopHeartbeat(emitters')
                          ELSE heartbeatInterval
  /\ lastPing' = Held(emitters', lastPing)

\* a removeEmitter that splices without looking at findIndex's answer: -1
\* takes the last connection of the list away
removeEmitter_SpliceUnchecked(c) ==
  /\ sockets[c].pending > 0
  /\ emitters' = [emitters EXCEPT ![sockets[c].seller] =
        IF \E i \in DOMAIN @ : @[i] = c THEN SelectSeq(@, LAMBDA d : d # c)
        ELSE SubSeq(@, 1, Len(@) - 1)]
  /\ sockets' = [sockets EXCEPT ![c].pending = @ - 1]
  /\ removeEmitterTail(sockets[c].seller, Has(sockets[c].seller),
                       emitters'[sockets[c].seller])
  /\ UNCHANGED <<engine, rerun, resp, inbox, published>>

\* a removeEmitter that leaves the emptied array in the Map
removeEmitter_KeepsEntry(c) ==
  /\ sockets[c].pending > 0
  /\ emitters' = [emitters EXCEPT ![sockets[c].seller] =
                    SelectSeq(@, LAMBDA d : d # c)]
  /\ sockets' = [sockets EXCEPT ![c].pending = @ - 1]
  /\ keys' = keys
  /\ heartbeatInterval' = stopHeartbeat(emitters')
  /\ lastPing' = Held(emitters', lastPing)
  /\ UNCHANGED <<engine, rerun, resp, inbox, published>>

\* a listener of connection c runs: removeEmitter(seller, res)
removeEmitter(c) ==
  /\ sockets[c].pending > 0
  /\ emitters' = [emitters EXCEPT ![sockets[c].seller] =
                    SelectSeq(@, LAMBDA d : d # c)]
  /\ sockets' = [sockets EXCEPT ![c].pending = @ - 1]
  /\ removeEmitterTail(sockets[c].seller,
                       c \in Connections(sockets[c].seller),
                       emitters'[sockets[c].seller])
  /\ UNCHANGED <<engine, rerun, resp, inbox, published>>

\* sendToSeller(seller, data): what the call leaves in the Map and writes
Kept(r) == SelectSeq(emitters[r], Live)

\* a write that puts the event in front of what the stream already holds
Written_InFront(r, note) ==
  [c \in ConnIds |->
     IF c \in Connections(r) /\ Live(c)
     THEN [sockets[c] EXCEPT
             !.log = <<[n |-> published.n + 1, note |-> note]>> \o @]
     ELSE sockets[c]]

Written(r, note) ==
  [c \in ConnIds |->
     IF c \in Connections(r) /\ Live(c)
     THEN [sockets[c] EXCEPT
             !.log = Append(@, [n |-> published.n + 1, note |-> note])]
     ELSE sockets[c]]

\* sendToSeller: what it returns, and the entry, the timer and the lastPing
\* stamps after a call that leaves `after` as the array and wrote to `written`
sendToSellerTail(r, note, after, written) ==
  /\ published' = [n |-> published.n + 1, seller |-> r, note |-> note,
                   sent |-> Has(r) /\ after # <<>>]
  /\ keys' = IF Has(r) /\ after = <<>> THEN keys \ {r} ELSE keys
  /\ heartbeatInterval' = IF Has(r) /\ after = <<>>
                          THEN stopHeartbeat(emitters')
                          ELSE heartbeatInterval
  /\ lastPing' = Held(emitters', [c \in ConnIds |->
                    IF c \in written THEN "fresh" ELSE lastPing[c]])

\* the connections a sendToSeller(r) writes to
Writable(r) == {c \in Connections(r) : Live(c)}

\* a sendToSeller that gives up on the recipient at the first dead connection
sendToSeller_AllOrNothing(r) ==
  /\ published.n < MaxPublish
  /\ IF \A c \in Connections(r) : Live(c)
     THEN /\ emitters' = emitters
          /\ sockets' = Written(r, 0)
          /\ sendToSellerTail(r, 0, emitters[r], Writable(r))
     ELSE /\ emitters' = [emitters EXCEPT ![r] = <<>>]
          /\ sockets' = sockets
          /\ sendToSellerTail(r, 0, <<>>, {})
  /\ UNCHANGED <<engine, rerun, resp, inbox>>

\* a handler publishes an event of its own (NEW_OFFER, OFFER_UPDATED, ...)
sendToSeller(r) ==
  /\ published.n < MaxPublish
  /\ emitters' = [emitters EXCEPT ![r] = Kept(r)]
  /\ sockets' = Written(r, 0)
  /\ sendToSellerTail(r, 0, Kept(r), Writable(r))
  /\ UNCHANGED <<engine, rerun, resp, inbox>>

\* a heartbeat that stops its timer without counting the connections
sendHeartbeat_AlwaysStops ==
  /\ heartbeatInterval
  /\ emitters' = [r \in Recipients |-> Kept(r)]
  /\ keys' = keys \ {r \in keys : emitters[r] # <<>> /\ Kept(r) = <<>>}
  /\ heartbeatInterval' = FALSE
  /\ lastPing' = Held(emitters', [c \in ConnIds |->
                    IF c \in Registered /\ Live(c) THEN "fresh"
                    ELSE lastPing[c]])
  /\ UNCHANGED <<engine, rerun, resp, inbox, sockets, published>>

\* the 30 s interval: every live stream is written and kept, the others go
sendHeartbeat ==
  /\ heartbeatInterval
  /\ emitters' = [r \in Recipients |-> Kept(r)]
  /\ keys' = keys \ {r \in keys : emitters[r] # <<>> /\ Kept(r) = <<>>}
  /\ heartbeatInterval' = stopHeartbeat(emitters')
  /\ lastPing' = Held(emitters', [c \in ConnIds |->
                    IF c \in Registered /\ Live(c) THEN "fresh"
                    ELSE lastPing[c]])
  /\ UNCHANGED <<engine, rerun, resp, inbox, sockets, published>>

\* An hour passes on the clock (Date.now) since the last write to registered
\* connection c.  The model does not order the intervals against the clock.
StalenessReached(c) ==
  /\ c \in Registered
  /\ lastPing[c] = "fresh"
  /\ lastPing' = [lastPing EXCEPT ![c] = "stale"]
  /\ UNCHANGED <<engine, rerun, resp, inbox, emitters, sockets, published,
                 keys, heartbeatInterval>>

\* connection.lastPing < oneHourAgo
IsStale(c) == lastPing[c] = "stale"

\* a reaper that drops the stale connections of the first recipient only
cleanupStaleConnections_FirstEntry ==
  /\ \E c \in Registered : IsStale(c)
  /\ emitters' = [emitters EXCEPT !["seller"] =
                    SelectSeq(@, LAMBDA c : ~IsStale(c))]
  /\ sockets' = [c \in ConnIds |->
        IF c \in Connections("seller") /\ IsStale(c) /\ Live(c)
        THEN [sockets[c] EXCEPT !.state = "closed", !.pending = 1]
        ELSE sockets[c]]
  /\ keys' = keys \ {r \in keys : emitters'[r] = <<>>}
  /\ lastPing' = Held(emitters', lastPing)
  /\ UNCHANGED <<engine, rerun, resp, inbox, published, heartbeatInterval>>

\* The 15 min interval: the connections last written more than an hour ago
\* are ended and dropped; ending an open stream makes its 'close' listener
\* due.  A run that finds nothing stale changes nothing.
cleanupStaleConnections ==
  /\ \E c \in Registered : IsStale(c)
  /\ emitters' = [r \in Recipients |->
                    SelectSeq(emitters[r], LAMBDA c : ~IsStale(c))]
  /\ sockets' = [c \in ConnIds |->
        IF c \in Registered /\ IsStale(c) /\ Live(c)
        THEN [sockets[c] EXCEPT !.state = "closed", !.pending = 1]
        ELSE sockets[c]]
  /\ keys' = keys \ {r \in keys : emitters'[r] = <<>>}
  /\ lastPing' = Held(emitters', lastPing)
  /\ UNCHANGED <<engine, rerun, resp, inbox, published, heartbeatInterval>>

Answer(o, c) == [op |-> o, code |-> c]

\* NotificationService.createNotification is called for user u
createNotificationStart(u) ==
  /\ Receive(0, NewRequest("createNotification", u, 0, "create"))
  /\ UNCHANGED <<article, offers, transactions, notifications, confirm,
                 expire, auto, concluded, rerun, resp, inbox, registry>>

\* createNotification: prisma.notification.create stores the row
createNotificationCreate(s) ==
  /\ At(s, "createNotification", "create")
  /\ inbox' = Append(inbox, [userId |-> reqs[s].caller, read |-> FALSE,
                             createdDate |-> "recent"])
  /\ reqs' = [reqs EXCEPT ![s].pc = "send", ![s].target = Len(inbox) + 1]
  /\ UNCHANGED <<article, offers, transactions, notifications, confirm,
                 expire, auto, concluded, started, rerun, resp, registry>>

\* a createNotification that publishes its event although the create threw
createNotificationFails_Publishes(s) ==
  /\ At(s, "createNotification", "create")
  /\ emitters' = [emitters EXCEPT ![reqs[s].caller] = Kept(reqs[s].caller)]
  /\ sockets' = Written(reqs[s].caller, Len(inbox) + 1)
  /\ sendToSellerTail(reqs[s].caller, Len(inbox) + 1, Kept(reqs[s].caller),
                      Writable(reqs[s].caller))
  /\ Finish(s)
  /\ resp' = Answer("createNotification", 500)
  /\ UNCHANGED <<article, offers, transactions, notifications, confirm,
                 expire, auto, concluded, started, rerun, inbox>>

\* createNotification: prisma.notification.create throws, and so does the call
createNotificationFails(s) ==
  /\ At(s, "createNotification", "create")
  /\ Finish(s)
  /\ resp' = Answer("createNotification", 500)
  /\ UNCHANGED <<article, offers, transactions, notifications, confirm,
                 expire, auto, concluded, started, rerun, inbox, registry>>

\* createNotification: the NEW_NOTIFICATION event, then the row is returned
createNotificationSend(s) ==
  /\ At(s, "createNotification", "send")
  /\ emitters' = [emitters EXCEPT ![reqs[s].caller] = Kept(reqs[s].caller)]
  /\ sockets' = Written(reqs[s].caller, reqs[s].target)
  /\ sendToSellerTail(reqs[s].caller, reqs[s].target, Kept(reqs[s].caller),
                      Writable(reqs[s].caller))
  /\ Finish(s)
  /\ resp' = Answer("createNotification", 200)
  /\ UNCHANGED <<article, offers, transactions, notifications, confirm,
                 expire, auto, concluded, started, rerun, inbox>>

\* the registry by itself: subscribers, publishers, heartbeat and reaper
RegistryNext ==
  \/ \E r \in Recipients : addEmitter(r)
  \/ \E c \in ConnIds, n \in 1..2 : Disconnect(c, n)
  \/ \E c \in ConnIds : removeEmitter(c)
  \/ \E r \in Recipients : sendToSeller(r)
  \/ sendHeartbeat
  \/ \E c \in ConnIds : StalenessReached(c)
  \/ cleanupStaleConnections

\* a process whose store holds no offer
NoOffers == {[offers |-> <<>>, transactions |-> <<>>]}

RegistrySpec == InitFrom(NoOffers) /\ [][RegistryNext]_vars

\* the notifier, and the subscribers it publishes to
NotifierNext ==
  \/ \E r \in Recipients : addEmitter(r)
  \/ \E c \in ConnIds : Disconnect(c, 1)
  \/ \E c \in ConnIds : removeEmitter(c)
  \/ \E u \in Recipients : createNotificationStart(u)
  \/ \E s \in Slots : createNotificationCreate(s)
  \/ \E s \in Slots : createNotificationFails(s)
  \/ \E s \in Slots : createNotificationSend(s)

NotifierSpec == InitFrom(NoOffers) /\ [][NotifierNext]_vars

(* ======================= a notification that cannot be stored ======================= *)

\* markAsShipped: createNotification throws after the SHIPPED write; the
\* await is not in a try of its own, so the handler's catch answers 500
markAsShippedNotifyThrows(s) ==
  /\ At(s, "markAsShipped", "notify")
  /\ Finish(s)
  /\ resp' = Answer("markAsShipped", 500)
  /\ UNCHANGED <<article, offers, transactions, notifications, confirm,
                 expire, auto, concluded, started, rerun, inbox, registry>>

\* cancelTransaction: createNotification throws after both status writes
cancelTransactionNotifyThrows(s) ==
  /\ At(s, "cancelTransaction", "notify")
  /\ Finish(s)
  /\ resp' = Answer("cancelTransaction", 500)
  /\ UNCHANGED <<article, offers, transactions, notifications, confirm,
                 expire, auto, concluded, started, rerun, inbox, registry>>

\* the engine on a store whose Notification writes may fail
FailNext ==
  \/ Next
  \/ \E s \in Slots : markAsShippedNotifyThrows(s)
  \/ \E s \in Slots : cancelTransactionNotifyThrows(s)

FailSpec == RestartInit /\ [][FailNext]_vars

(* ======================= what the callers are answered ======================= *)

\* step A of operation o answers its caller with status code (0: it does not
\* answer yet); no handler touches the registry or the read API before its
\* first write
Audit(A, o, code) ==
  /\ A
  /\ resp' = Answer(o, code)
  /\ UNCHANGED <<rerun, inbox, registry>>

\* The requests as they are received and answered by their checks, on a
\* store of RestartStore.  A request that passes its checks stays suspended
\* at its first write.
AuditNext ==
  \/ \E u \in Submitters, p \in Prices :
        Audit(createOfferStart(u, p), "createOffer", createOfferCheck(u))
  \/ \E u \in Users, o \in 1..(Len(offers) + 1), a \in Actions :
        Audit(updateOfferStatusBySellerStart(u, o, a),
              "updateOfferStatusBySeller",
              updateOfferStatusBySellerCheck(u, o, a))
  \/ \E u \in Users, o \in 1..(Len(offers) + 1) :
        Audit(concludeOfferByUserStart(u, o), "concludeOfferByUser",
              concludeOfferByUserCheck(u, o))
  \/ \E u \in Users, o \in 1..(Len(offers) + 1) :
        Audit(cancelOfferByUserStart(u, o), "cancelOfferByUser",
              cancelOfferByUserCheck(u, o))
  \/ \E u \in Users, o \in 1..(Len(offers) + 1), addr \in BOOLEAN :
        Audit(initiateTransactionStart(u, o, addr), "initiateTransaction",
              initiateTransactionCheck(u, o, addr))
  \/ \E s \in Slots :
        Audit(initiateTransactionLookup(s), "initiateTransaction",
              IF existingTransaction(reqs[s].target) THEN 400 ELSE 0)
  \/ \E u \in Users, t \in 1..(Len(transactions) + 1), tracking \in BOOLEAN :
        Audit(markAsShippedStart(u, t, tracking), "markAsShipped",
              markAsShippedCheck(u, t, tracking))
  \/ \E u \in Users, t \in 1..(Len(transactions) + 1) :
        Audit(confirmDeliveryStart(u, t), "confirmDelivery",
              confirmDeliveryCheck(u, t))
  \/ \E u \in Users, t \in 1..(Len(transactions) + 1), reason \in BOOLEAN :
        Audit(openDisputeStart(u, t, reason), "openDispute",
              openDisputeCheck(u, t, reason))
  \/ \E u \in Users, t \in 1..(Len(transactions) + 1) :
        Audit(cancelTransactionStart(u, t), "cancelTransaction",
              cancelTransactionCheck(u, t))

AuditSpec == RestartInit /\ [][AuditNext]_vars

(* ======================= the read API of the notifications ======================= *)

NoteIds == 1..MaxNote

\* the Notification tables the API is tried on: up to MaxNote rows, each of
\* either recipient and, as createNotification stores them, unread
RECURSIVE Tables(_)
Tables(n) ==
  IF n = 0 THEN {<<>>}
  ELSE LET shorter == Tables(n - 1)
       IN shorter \cup
          {Append(t, [userId |-> u, read |-> FALSE,
                      createdDate |-> "recent"]) :
             t \in {x \in shorter : Len(x) = n - 1}, u \in Recipients}

\* what markAsRead answers with its 200
AnswerRead(msg) == [op |-> "markAsRead", code |-> 200, message |-> msg]

\* a markAsRead that updates whatever findFirst returned
markAsReadCheck_NoShortcut(u, n) ==
  IF n \notin DOMAIN inbox \/ inbox[n].userId # u THEN 404
  ELSE 0

\* markAsRead: the answer of the checks on the findFirst({id, userId}) read
markAsReadCheck(u, n) ==
  IF n \notin DOMAIN inbox \/ inbox[n].userId # u THEN 404
  ELSE IF inbox[n].read THEN 200
  ELSE 0

\* markAsRead: the request is received and the row looked up
markAsReadStart(u, n) ==
  /\ Receive(markAsReadCheck(u, n), NewRequest("markAsRead", u, n, "update"))
  /\ resp' = IF markAsReadCheck(u, n) = 200 THEN AnswerRead("already")
             ELSE Answer("markAsRead", markAsReadCheck(u, n))
  /\ UNCHANGED <<article, offers, transactions, notifications, confirm,
                 expire, auto, concluded, rerun, inbox, registry>>

\* the place a deleted row leaves behind: ids are never used again
Deleted == [userId |-> "none", read |-> FALSE, createdDate |-> "none"]

\* markAsRead: the update and the response; the update of a row that is
\* gone throws, and the handler's catch answers 500
markAsReadUpdate(s) ==
  /\ At(s, "markAsRead", "update")
  /\ IF inbox[reqs[s].target] = Deleted
     THEN /\ inbox' = inbox
          /\ resp' = Answer("markAsRead", 500)
     ELSE /\ inbox' = [inbox EXCEPT ![reqs[s].target].read = TRUE]
          /\ resp' = AnswerRead("marked")
  /\ Finish(s)
  /\ UNCHANGED <<article, offers, transactions, notifications, confirm,
                 expire, auto, concluded, started, rerun, registry>>

\* markAllAsRead: one updateMany on the caller's unread rows
markAllAsRead(u) ==
  /\ inbox' = [n \in DOMAIN inbox |->
                 IF inbox[n].userId = u /\ ~inbox[n].read
                 THEN [inbox[n] EXCEPT !.read = TRUE] ELSE inbox[n]]
  /\ resp' = [op |-> "markAllAsRead", code |-> 200, userId |-> u]
  /\ UNCHANGED <<engine, rerun, registry>>

\* a deleteNotification that looks the row up by id alone
deleteNotificationCheck_AnyOwner(u, n) ==
  IF n \notin DOMAIN inbox \/ inbox[n] = Deleted THEN 404
  ELSE 0

\* deleteNotification: the answer of the checks on the findFirst({id, userId})
deleteNotificationCheck(u, n) ==
  IF n \notin DOMAIN inbox \/ inbox[n].userId # u THEN 404
  ELSE 0

\* deleteNotification: the request is received and the row looked up
deleteNotificationStart(u, n) ==
  /\ Receive(deleteNotificationCheck(u, n),
             NewRequest("deleteNotification", u, n, "delete"))
  /\ resp' = Answer("deleteNotification", deleteNotificationCheck(u, n))
  /\ UNCHANGED <<article, offers, transactions, notifications, confirm,
                 expire, auto, concluded, rerun, inbox, registry>>

\* deleteNotification: the delete and the response; the delete of a row that
\* is gone throws, and the handler's catch answers 500
deleteNotificationDelete(s) ==
  /\ At(s, "deleteNotification", "delete")
  /\ inbox' = [inbox EXCEPT ![reqs[s].target] = Deleted]
  /\ resp' = Answer("deleteNotification",
                    IF inbox[reqs[s].target] = Deleted THEN 500 ELSE 200)
  /\ Finish(s)
  /\ UNCHANGED <<article, offers, transactions, notifications, confirm,
                 expire, auto, concluded, started, rerun, registry>>

\* 30 days have passed since Notification row n was created
NotificationAgeReached(n) ==
  /\ n \in DOMAIN inbox
  /\ inbox[n].createdDate = "recent"
  /\ inbox' = [inbox EXCEPT ![n].createdDate = "old"]
  /\ UNCHANGED <<engine, rerun, resp, registry>>

\* a retention sweep that takes every read row, whatever its age
cleanupOldNotifications_AnyAge ==
  /\ inbox' = [n \in DOMAIN inbox |->
                 IF inbox[n].read THEN Deleted ELSE inbox[n]]
  /\ UNCHANGED <<engine, rerun, resp, registry>>

\* cleanupOldNotifications (cron, 02:00): one deleteMany
cleanupOldNotifications ==
  /\ inbox' = [n \in DOMAIN inbox |->
                 IF inbox[n].read /\ inbox[n].createdDate = "old"
                 THEN Deleted ELSE inbox[n]]
  /\ UNCHANGED <<engine, rerun, resp, registry>>

\* the Notification tables found in a store: up to MaxNote rows, each of
\* either recipient, read or not, recent or old
RECURSIVE Stored(_)
Stored(n) ==
  IF n = 0 THEN {<<>>}
  ELSE LET shorter == Stored(n - 1)
       IN shorter \cup
          {Append(t, [userId |-> u, read |-> r, createdDate |-> d]) :
             t \in {x \in shorter : Len(x) = n - 1},
             u \in Recipients, r \in BOOLEAN, d \in {"recent", "old"}}

\* the whole notification API and the retention sweep on a stored table
InboxNext ==
  \/ \E u \in Recipients, n \in NoteIds : markAsReadStart(u, n)
  \/ \E s \in Slots : markAsReadUpdate(s)
  \/ \E u \in Recipients : markAllAsRead(u)
  \/ \E u \in Recipients, n \in NoteIds : deleteNotificationStart(u, n)
  \/ \E s \in Slots : deleteNotificationDelete(s)
  \/ \E n \in NoteIds : NotificationAgeReached(n)
  \/ cleanupOldNotifications

InboxSpec == InitWith(NoOffers, Stored(MaxNote)) /\ [][InboxNext]_vars

ReadNext ==
  \/ \E u \in Recipients, n \in NoteIds : markAsReadStart(u, n)
  \/ \E s \in Slots : markAsReadUpdate(s)

ReadSpec == InitWith(NoOffers, Tables(MaxNote)) /\ [][ReadNext]_vars

(* ======================= a sweep whose store call fails ======================= *)

\* cleanupExpiredTransactions: an awaited call of the loop body throws (the
\* second notification when first is TRUE); the one catch around the whole
\* loop logs and rethrows
cleanupExpiredTransactionsThrows(first) ==
  /\ expire.pc # "idle"
  /\ first => expire.pc = "notify"
  /\ notifications' =
       IF first
       THEN createNotification(notifications,
               transactions[Head(expire.queue).id].buyerUsername,
               "TRANSACTION_CANCELLED", Head(expire.queue).id)
       ELSE notifications
  /\ expire' = [pc |-> "idle", queue |-> <<>>]
  /\ UNCHANGED <<article, offers, transactions, reqs, confirm, auto,
                 concluded, started>>

\* autoCompleteShippedTransactions: the same for its loop
autoCompleteShippedTransactionsThrows(first) ==
  /\ auto.pc # "idle"
  /\ first => auto.pc = "notify"
  /\ notifications' =
       IF first
       THEN createNotification(notifications,
               transactions[Head(auto.queue).id].sellerUsername,
               "PAYMENT_RELEASED", Head(auto.queue).id)
       ELSE notifications
  /\ auto' = [pc |-> "idle", queue |-> <<>>]
  /\ UNCHANGED <<article, offers, transactions, reqs, confirm, expire,
                 concluded, started>>

\* the engine on a store whose calls may fail under a sweep
AbortNext ==
  \/ Next
  \/ \E first \in BOOLEAN : Engine(cleanupExpiredTransactionsThrows(first))
  \/ \E first \in BOOLEAN : Engine(autoCompleteShippedTransactionsThrows(first))

AbortSpec == Init /\ [][AbortNext]_vars

(* ======================= two buyers on the one article ======================= *)

\* A store in which a second user holds an ACCEPTED offer on the article
\* beside the buyer's (the offer table is unique on article and user only)
RivalOffer == [EarlierOffer("ACCEPTED") EXCEPT !.username = "other"]

RivalStore ==
  RestartStore
  \cup {[offers |-> <<EarlierOffer("ACCEPTED"), RivalOffer>>,
         transactions |-> <<>>]}

RivalSpec == InitFrom(RivalStore) /\ [][Next]_vars

(* ======================= claims ======================= *)

\* step predicates: which await of which handler the step just taken was
Wrote(s, o, from, to) == /\ reqs[s].op = o /\ reqs[s].pc = from
                         /\ reqs'[s].op = o /\ reqs'[s].pc = to

Created == Len(transactions') = Len(transactions) + 1

OneTransactionPerOffer ==
  \A t1, t2 \in TxIds :
     transactions[t1].offerId = transactions[t2].offerId => t1 = t2

\* C1: the store never holds two transactions of the same offer, and no
\* initiate creates a record while a transaction of its offer exists.
C1_AtMostOneTransactionPerOffer ==
  /\ []OneTransactionPerOffer
  /\ [][Created =>
          ~existingTransaction(transactions'[Len(transactions')].offerId)]_vars

\* C2: a payment confirmation that finds its transaction no longer
\* PAYMENT_PENDING leaves the transaction status alone and ends there, with no
\* offer write and no PAYMENT_CONFIRMED notification.
C2_ConfirmationIsConditional ==
  [][\A t \in TxIds :
       (/\ confirm[t] = "pending"
        /\ confirm'[t] # "pending"
        /\ transactions[t].status # "PAYMENT_PENDING")
       => /\ transactions'[t].status = transactions[t].status
          /\ confirm'[t] = "done"]_vars

\* C3: buyer cancel and expiry sweep on one PAYMENT_PENDING transaction: only
\* one of them cancels it, so its seller is told TRANSACTION_CANCELLED once.
C3_CancelledOnce ==
  \A t \in TxIds :
     Count(transactions[t].sellerUsername, "TRANSACTION_CANCELLED", t) <= 1

UniqueOffers ==
  \A i, j \in OfferIds :
     (/\ offers[i].articleId = offers[j].articleId
      /\ offers[i].username = offers[j].username) => i = j

\* C4: at most one Offer row per (articleId, username) in every state, and
\* every submit that writes leaves that row with its price and PENDING.
C4_OneOfferPerArticleAndBuyer ==
  /\ []UniqueOffers
  /\ [][\A s \in Slots :
          (Wrote(s, "createOffer", "update", "notifyUpdated")
             \/ Wrote(s, "createOffer", "create", "notifyNew"))
          => LET row == offers'[reqs'[s].found]
             IN /\ row.articleId = reqs[s].target
                /\ row.username = reqs[s].caller
                /\ row.price = reqs[s].price
                /\ row.status = "PENDING"]_vars

\* C4 witness: an offer submitted in this run has been re-submitted, and the
\* single row carries the second price.
C4_Resubmitted ==
  \E s \in Slots :
     /\ At(s, "createOffer", "notifyUpdated")
     /\ Count(Owner, "NEW_OFFER", reqs[s].found) = 1
     /\ Len(offers) = 1
     /\ offers[reqs[s].found].price = reqs[s].price
     /\ offers[reqs[s].found].price # 1
     /\ offers[reqs[s].found].status = "PENDING"

\* a request of operation o has passed its checks and suspended in slot s
Admitted(s, o) == reqs[s].op = "none" /\ reqs'[s].op = o

\* C5: the seller decision is admitted only on a PENDING offer (on any other
\* status its checks answer 400), and its write sets the status to the action.
C5_SellerDecision ==
  [][\A s \in Slots :
       /\ (Admitted(s, "updateOfferStatusBySeller")
             => offers[reqs'[s].target].status = "PENDING")
       /\ (Wrote(s, "updateOfferStatusBySeller", "write", "notify")
             => offers'[reqs[s].target].status = reqs[s].action)]_vars

\* C6: initiate is refused on an offer that is not ACCEPTED, and the offer is
\* ACCEPTED at the moment the transaction record is written.
C6_CreatedFromAcceptedOffer ==
  /\ [](\A u \in Users, o \in OfferIds :
          offers[o].status # "ACCEPTED"
             => initiateTransactionCheck(u, o, TRUE) # 0)
  /\ [][Created =>
          offers[transactions'[Len(transactions')].offerId].status
             = "ACCEPTED"]_vars

\* C7: no step changes the status of a DISPUTED transaction.
C7_DisputedIsAbsorbing ==
  [][\A t \in TxIds :
       transactions[t].status = "DISPUTED"
          => transactions'[t].status = "DISPUTED"]_vars

\* C8: of two concurrent buyer cancels of one offer, at most one gets past
\* the status write.
C8_DuplicateCancelWritesOnce ==
  \A s, q \in Slots :
     (/\ s # q
      /\ At(s, "cancelOfferByUser", "notify")
      /\ At(q, "cancelOfferByUser", "notify"))
     => reqs[s].target # reqs[q].target

\* C9: no offer is completed both by conclude and by a payment confirmation,
\* and no transaction operation writes an offer that conclude has completed.
C9_ExclusiveCompletion ==
  /\ [](\A t \in TxIds :
          ~(/\ transactions[t].offerId \in concluded
            /\ confirm[t] \in {"notify", "done"}))
  /\ [][\A t \in TxIds :
          transactions[t].offerId \in concluded
          => /\ ~(confirm[t] = "offer" /\ confirm'[t] = "notify")
             /\ ~(/\ expire.pc = "offer" /\ expire'.pc = "notify"
                  /\ Head(expire.queue).id = t)
             /\ \A s \in Slots :
                  ~(/\ Wrote(s, "cancelTransaction", "offer", "notify")
                    /\ reqs[s].target = t)]_vars

\* C10: on the happy path (buyer submit, then seller accept) the accept of
\* the submitted PENDING offer leaves it ACCEPTED, the status initiate needs.
C10_HappyPathAcceptThenInitiate ==
  [][\A s \in Slots :
       (/\ Wrote(s, "updateOfferStatusBySeller", "write", "notify")
        /\ reqs[s].action = "ACCEPTED"
        /\ reqs[s].caller = offers[reqs[s].target].seller
        /\ Count(Owner, "NEW_OFFER", reqs[s].target) = 1
        /\ offers[reqs[s].target].status = "PENDING")
       => (offers'[reqs[s].target].status = "ACCEPTED"
           /\ reqs'[s].pc = "notify")]_vars

\* the most transactions one behaviour holds: the earlier one and one per request
MaxTx == MaxReq + 1

TimerAt(t, p) == t \in TxIds /\ confirm[t] = p

\* C11: the confirmation scheduled by a successful initiate eventually runs to
\* its end; run on a PAYMENT_PENDING transaction it writes PAYMENT_CONFIRMED
\* and, in the same step, DONE on the source offer, so that no state shows the
\* confirmed transaction beside an offer this confirmation has not flipped;
\* and it records one PAYMENT_CONFIRMED notification for each party.
C11_ConfirmationRunsAndFlipsTogether ==
  /\ \A t \in 1..MaxTx : TimerAt(t, "pending") ~> TimerAt(t, "done")
  /\ [][\A t \in TxIds :
          (/\ confirm[t] = "pending" /\ confirm'[t] # "pending"
           /\ transactions[t].status = "PAYMENT_PENDING")
          => /\ transactions'[t].status = "PAYMENT_CONFIRMED"
             /\ offers'[transactions[t].offerId].status = "DONE"]_vars
  /\ [][\A t \in TxIds :
          (confirm[t] = "notify" /\ confirm'[t] = "done")
          => \A u \in {transactions[t].sellerUsername,
                       transactions[t].buyerUsername} :
                CopiesIn(Note(u, "PAYMENT_CONFIRMED", t), notifications')
                  = Count(u, "PAYMENT_CONFIRMED", t) + 1]_vars

\* the handler in slot s has answered and returned
Returned(s, o, from) == /\ reqs[s].op = o /\ reqs[s].pc = from
                        /\ reqs'[s].op = "none"

\* one more notification (u, t, r) than before, and no other change
Recorded(u, t, r) == notifications' = createNotification(notifications, u, t, r)

\* C12: a submit on an unpublished article or on the caller's own article is
\* answered 400 and writes nothing; a submit by a buyer who already has an
\* offer goes to the update whatever that offer's status, the update sets the
\* submitted price and PENDING on that row only, and one OFFER_UPDATED
\* notification is recorded for the seller.
C12_ResubmitRestartsNegotiation ==
  /\ [](\A u \in Users :
          (~article.published \/ article.owner = u) => createOfferCheck(u) = 400)
  /\ [][\A s \in Slots :
          /\ Admitted(s, "createOffer")
                => /\ article.published
                   /\ article.owner # reqs'[s].caller
                   /\ offers' = offers
          /\ (At(s, "createOffer", "lookup") /\ reqs'[s] # reqs[s]
               /\ findOffer(reqs[s].target, reqs[s].caller) # 0)
                => /\ reqs'[s].pc = "update"
                   /\ reqs'[s].found = findOffer(reqs[s].target, reqs[s].caller)
          /\ Wrote(s, "createOffer", "update", "notifyUpdated")
                => offers' = [offers EXCEPT
                                ![reqs[s].found].price = reqs[s].price,
                                ![reqs[s].found].status = "PENDING"]
          /\ Returned(s, "createOffer", "notifyUpdated")
                => Recorded(offers[reqs[s].found].seller, "OFFER_UPDATED",
                            reqs[s].found)]_vars

\* C12 witness: the earlier offer, DONE with its transaction shipped, has been
\* re-submitted at another price: it is PENDING again and the seller was told.
C12_ResubmittedOverDone ==
  /\ Len(transactions) = 1 /\ transactions[1].status = "SHIPPED"
  /\ offers[1].status = "PENDING" /\ offers[1].price = 2
  /\ Count(Owner, "OFFER_UPDATED", 1) = 1
  /\ \A s \in Slots : FreeSlot(s)

\* the two handlers that cancel an offer: the buyer's and the seller's route
CancelOps == {"cancelOfferByUser", "updateOfferStatusBySeller"}

\* the other party of offer o, as seen from caller u
Counterpart(u, o) == IF u = offers[o].username THEN offers[o].seller
                     ELSE offers[o].username

\* C13: an offer cancel is refused on a DENIED, CANCELLED or DONE offer; its
\* write happens only on a PENDING or ACCEPTED offer and sets CANCELLED on
\* that offer alone; and its OFFER_CANCELLED notification goes to the
\* counterpart of the caller: the seller when the buyer cancels, the buyer
\* when the seller cancels.
C13_OfferCancel ==
  /\ [](\A u \in Users, o \in OfferIds :
          offers[o].status \notin {"PENDING", "ACCEPTED"}
             => /\ cancelOfferByUserCheck(u, o) # 0
                /\ \A a \in Actions : updateOfferStatusBySellerCheck(u, o, a) # 0)
  /\ [][\A s \in Slots : \A op \in CancelOps :
          /\ Wrote(s, op, "write", "notify")
                => /\ offers[reqs[s].target].status \in {"PENDING", "ACCEPTED"}
                   /\ offers' = SetStatus(offers, reqs[s].target, "CANCELLED")
          /\ Returned(s, op, "notify")
                => Recorded(Counterpart(reqs[s].caller, reqs[s].target),
                            "OFFER_CANCELLED", reqs[s].target)]_vars

\* C14: conclude is refused to anyone but the offer's buyer and on any status
\* but ACCEPTED; its write is one step that finds the offer ACCEPTED, sets it
\* DONE and sets the article boughtBy = buyer, published = false; no other
\* step of the handler touches offer or article.
C14_ConcludeOnlyFromAccepted ==
  /\ [](\A u \in Users, o \in OfferIds :
          (offers[o].username # u \/ offers[o].status # "ACCEPTED")
             => concludeOfferByUserCheck(u, o) # 0)
  /\ [][\A s \in Slots :
          /\ Wrote(s, "concludeOfferByUser", "write", "notify")
                => /\ reqs[s].caller = offers[reqs[s].target].username
                   /\ offers[reqs[s].target].status = "ACCEPTED"
                   /\ offers' = SetStatus(offers, reqs[s].target, "DONE")
                   /\ article' = [article EXCEPT !.boughtBy = reqs[s].caller,
                                                 !.published = FALSE]
          /\ (Admitted(s, "concludeOfferByUser")
                 \/ Returned(s, "concludeOfferByUser", "notify"))
                => offers' = offers /\ article' = article]_vars

\* C15: markShipped is refused to anyone but the transaction's seller and on
\* any status but PAYMENT_CONFIRMED; its write finds the transaction
\* PAYMENT_CONFIRMED and sets SHIPPED on it alone; it records one ITEM_SHIPPED
\* notification for the buyer; no other step of the handler changes a
\* transaction.
C15_MarkShippedOnlyFromConfirmed ==
  /\ [](\A u \in Users, t \in TxIds :
          (transactions[t].sellerUsername # u
             \/ transactions[t].status # "PAYMENT_CONFIRMED")
             => markAsShippedCheck(u, t, TRUE) # 0)
  /\ [][\A s \in Slots :
          /\ Wrote(s, "markAsShipped", "write", "notify")
                => /\ reqs[s].caller = transactions[reqs[s].target].sellerUsername
                   /\ transactions[reqs[s].target].status = "PAYMENT_CONFIRMED"
                   /\ transactions' = [transactions EXCEPT
                          ![reqs[s].target].status = "SHIPPED",
                          ![reqs[s].target].shippedAt = "recent"]
          /\ Returned(s, "markAsShipped", "notify")
                => /\ Recorded(transactions[reqs[s].target].buyerUsername,
                               "ITEM_SHIPPED", reqs[s].target)
                   /\ transactions' = transactions
          /\ Admitted(s, "markAsShipped") => transactions' = transactions]_vars

\* C16: confirmDelivery is refused to anyone but the transaction's buyer and
\* on any status but SHIPPED; its write finds the transaction SHIPPED and
\* sets COMPLETED on it alone; it then marks the article boughtBy = buyer and
\* published = false, and records PAYMENT_RELEASED for the seller and
\* TRANSACTION_COMPLETED for the buyer.
C16_ConfirmDeliveryOnlyFromShipped ==
  /\ [](\A u \in Users, t \in TxIds :
          (transactions[t].buyerUsername # u
             \/ transactions[t].status # "SHIPPED")
             => confirmDeliveryCheck(u, t) # 0)
  /\ [][\A s \in Slots :
          /\ Wrote(s, "confirmDelivery", "write", "article")
                => /\ reqs[s].caller = transactions[reqs[s].target].buyerUsername
                   /\ transactions[reqs[s].target].status = "SHIPPED"
                   /\ transactions' = SetStatus(transactions, reqs[s].target,
                                                "COMPLETED")
          /\ Wrote(s, "confirmDelivery", "article", "notify")
                => article' = [article EXCEPT
                      !.boughtBy = transactions[reqs[s].target].buyerUsername,
                      !.published = FALSE]
          /\ Returned(s, "confirmDelivery", "notify")
                => notifications' = createNotification(
                      createNotification(notifications,
                         transactions[reqs[s].target].sellerUsername,
                         "PAYMENT_RELEASED", reqs[s].target),
                      transactions[reqs[s].target].buyerUsername,
                      "TRANSACTION_COMPLETED", reqs[s].target)
          /\ Admitted(s, "confirmDelivery")
                => transactions' = transactions /\ article' = article]_vars

IsParty(u, t) == u \in {transactions[t].buyerUsername,
                        transactions[t].sellerUsername}

\* C17: a dispute with a reason is admitted exactly when the caller is the
\* transaction's buyer or seller and the status is neither COMPLETED nor
\* DISPUTED; its write finds such a status and sets DISPUTED and the opener on
\* that transaction alone; it records TRANSACTION_DISPUTED for the other party
\* and DISPUTE_OPENED for the operations recipient; nothing else is changed.
C17_OpenDispute ==
  /\ [](\A u \in Users, t \in TxIds :
          openDisputeCheck(u, t, TRUE) = 0
             <=> /\ IsParty(u, t)
                 /\ transactions[t].status \notin {"COMPLETED", "DISPUTED"})
  /\ [][\A s \in Slots :
          /\ Wrote(s, "openDispute", "write", "notify")
                => /\ IsParty(reqs[s].caller, reqs[s].target)
                   /\ transactions[reqs[s].target].status
                         \notin {"COMPLETED", "DISPUTED"}
                   /\ transactions' = [transactions EXCEPT
                          ![reqs[s].target].status = "DISPUTED",
                          ![reqs[s].target].disputeOpenedBy = reqs[s].caller]
          /\ Returned(s, "openDispute", "notify")
                => /\ notifications' = createNotification(
                         createNotification(notifications,
                            CHOOSE u \in {transactions[reqs[s].target].buyerUsername,
                                          transactions[reqs[s].target].sellerUsername} :
                               u # reqs[s].caller,
                            "TRANSACTION_DISPUTED", reqs[s].target),
                         Admin, "DISPUTE_OPENED", reqs[s].target)
                   /\ transactions' = transactions
          /\ Admitted(s, "openDispute") => transactions' = transactions]_vars

\* C18: transaction cancel is refused to anyone but the transaction's buyer
\* and on any status but PAYMENT_PENDING; its write finds the transaction
\* PAYMENT_PENDING and sets CANCELLED on it alone; it then sets the source
\* offer ACCEPTED and records one TRANSACTION_CANCELLED notification for the
\* seller; its admission changes neither table.
C18_CancelOnlyFromPending ==
  /\ [](\A u \in Users, t \in TxIds :
          (transactions[t].buyerUsername # u
             \/ transactions[t].status # "PAYMENT_PENDING")
             => cancelTransactionCheck(u, t) # 0)
  /\ [][\A s \in Slots :
          /\ Wrote(s, "cancelTransaction", "write", "offer")
                => /\ reqs[s].caller = transactions[reqs[s].target].buyerUsername
                   /\ transactions[reqs[s].target].status = "PAYMENT_PENDING"
                   /\ transactions' = SetStatus(transactions, reqs[s].target,
                                                "CANCELLED")
          /\ Wrote(s, "cancelTransaction", "offer", "notify")
                => offers' = SetStatus(offers,
                      transactions[reqs[s].target].offerId, "ACCEPTED")
          /\ Returned(s, "cancelTransaction", "notify")
                => Recorded(transactions[reqs[s].target].sellerUsername,
                            "TRANSACTION_CANCELLED", reqs[s].target)
          /\ Admitted(s, "cancelTransaction")
                => transactions' = transactions /\ offers' = offers]_vars

\* the expiry sweep takes a step / its step at loop position p
SweepStep(p) == expire.pc = p /\ expire' # expire

\* the ids of a findMany result
RECURSIVE QueueIds(_)
QueueIds(q) == IF q = <<>> THEN {} ELSE {Head(q).id} \cup QueueIds(Tail(q))

\* C19: the expiry sweep selects every transaction that is PAYMENT_PENDING
\* and older than the expiry age and sets each selected one CANCELLED; it
\* writes an offer only if that offer is DONE at the time of the write, and
\* then sets it ACCEPTED; an offer in any other status at that time is left
\* as it is, whatever offer operation ran since the sweep's read.
C19_ExpiryRevertsOnlyDoneOffer ==
  [][/\ SweepStep("idle")
          => QueueIds(expire'.queue) = {i \in TxIds : IsExpired(i)}
     /\ SweepStep("tx")
          => /\ transactions' = SetStatus(transactions, Head(expire.queue).id,
                                          "CANCELLED")
             /\ offers' = offers
     /\ SweepStep("offer")
          => LET o == transactions[Head(expire.queue).id].offerId
             IN /\ offers[o].status = "DONE"
                /\ offers' = SetStatus(offers, o, "ACCEPTED")
     /\ (SweepStep("idle") \/ SweepStep("notify")) => offers' = offers]_vars

\* the auto-complete sweep takes a step at loop position p
AutoStep(p) == auto.pc = p /\ auto' # auto

\* C20: a sweep writes a transaction only if its status at that time is still
\* the one the sweep selected it in: PAYMENT_PENDING for the expiry sweep,
\* SHIPPED for the auto-complete sweep; so the auto-complete sweep never
\* writes over DISPUTED and never releases payment for, or tells the parties
\* about, a transaction whose completion has been recorded already.
C20_SweepsAreRaceSafe ==
  [][/\ SweepStep("tx")
          => transactions[Head(expire.queue).id].status = "PAYMENT_PENDING"
     /\ AutoStep("tx")
          => transactions[Head(auto.queue).id].status = "SHIPPED"
     /\ AutoStep("notify")
          => LET t == Head(auto.queue).id
             IN /\ Count(transactions[t].sellerUsername, "PAYMENT_RELEASED", t) = 0
                /\ Count(transactions[t].buyerUsername,
                         "TRANSACTION_COMPLETED", t) = 0]_vars

Stale(t, st, age) == /\ t \in TxIds
                     /\ transactions[t].status = st
                     /\ transactions[t][age] = "old"

\* C21: with the scheduler's jobs run fairly, no transaction stays SHIPPED
\* past the auto-completion age for ever (it ends COMPLETED with the article
\* bought and unpublished), and none stays PAYMENT_PENDING past the expiry
\* age for ever (it ends CANCELLED).
C21_SweepsEventuallyRun ==
  /\ \A t \in 1..MaxTx :
        Stale(t, "SHIPPED", "shippedAt")
          ~> (/\ t \in TxIds
              /\ \/ transactions[t].status \notin {"SHIPPED", "COMPLETED"}
                 \/ /\ transactions[t].status = "COMPLETED"
                    /\ ~article.published
                    /\ article.boughtBy = transactions[t].buyerUsername)
  /\ \A t \in 1..MaxTx :
        Stale(t, "PAYMENT_PENDING", "createdDate")
          ~> ~Stale(t, "PAYMENT_PENDING", "createdDate")

\* the step just taken is a sweep's transaction update of row t, the first
\* run's or the second's
SweepWrote(t) ==
  \/ /\ expire.pc = "tx" /\ expire'.pc # "tx" /\ Head(expire.queue).id = t
  \/ /\ auto.pc = "tx" /\ auto'.pc # "tx" /\ Head(auto.queue).id = t
  \/ /\ rerun.pc = "tx" /\ rerun'.pc # "tx" /\ Head(rerun.queue).id = t

SweepTypes == {"TRANSACTION_CANCELLED", "TRANSACTION_COMPLETED",
               "PAYMENT_RELEASED"}

\* C22: when nobody but the sweeps ends a transaction, two runs of a sweep,
\* one after the other or overlapping, update each matching transaction at
\* most once (no run writes a row a run has already cancelled or completed)
\* and record each expiry / completion notification once per recipient.
C22_DoubleRunIsIdempotent ==
  /\ [](\A t \in TxIds, u \in Users, ty \in SweepTypes : Count(u, ty, t) <= 1)
  /\ [][\A t \in TxIds :
          SweepWrote(t) =>
             transactions[t].status \notin {"CANCELLED", "COMPLETED"}]_vars

\* the step just taken ends a createNotification call that was at await p
NotifierEnds(s, p) == /\ At(s, "createNotification", p)
                      /\ reqs'[s].op = "none"

\* the events of Notification row n written to connection c
EventsOf(c, n) == {i \in DOMAIN sockets[c].log : sockets[c].log[i].note = n}

\* C23: an event that carries a Notification row is written to a connection
\* only once that row is stored, for its recipient; a createNotification
\* that got its row stored returns it without error and leaves it stored
\* whatever the recipient's connections are (none, or none writable); one
\* whose store write throws writes no event to any connection.
C23_PersistBeforePublish ==
  /\ [](\A c \in ConnIds : \A i \in DOMAIN sockets[c].log :
          LET e == sockets[c].log[i]
          IN e.note # 0 => /\ e.note \in DOMAIN inbox
                           /\ inbox[e.note].userId = sockets[c].seller)
  /\ [][\A s \in Slots :
          /\ NotifierEnds(s, "send") =>
                /\ reqs[s].target \in DOMAIN inbox
                /\ inbox' = inbox
                /\ resp' = Answer("createNotification", 200)
          /\ NotifierEnds(s, "create") =>
                /\ inbox' = inbox
                /\ sockets' = sockets
                /\ published' = published
                /\ resp' = Answer("createNotification", 500)]_vars

\* a createNotification has returned its stored row although the only
\* connection of the recipient was no longer writable: no event was written
C23_StoredWithoutDelivery ==
  /\ resp = Answer("createNotification", 200)
  /\ published.note \in DOMAIN inbox
  /\ \A c \in ConnIds : EventsOf(c, published.note) = {}
  /\ \E c \in ConnIds : /\ sockets[c].seller = published.seller
                         /\ sockets[c].state = "closed"

\* C24: a transaction handler that has made its status write and is at its
\* notification answers its caller with success: it never ends there with
\* a 500.
C24_NotificationFailureNotSurfaced ==
  [][\A s \in Slots :
        (reqs[s].pc = "notify" /\ reqs'[s].op = "none")
           => resp' # Answer(reqs[s].op, 500)]_vars

\* the step just taken is a sendToSeller call for recipient r
Sent(r) == /\ published'.n = published.n + 1
           /\ published'.seller = r

ConnectionsAfter(r) == {emitters'[r][i] : i \in DOMAIN emitters'[r]}

LastEvent == [n |-> published.n, note |-> published.note]

Logged(c, e) == \E i \in DOMAIN sockets[c].log : sockets[c].log[i] = e

\* C25: a sendToSeller for recipient r appends the event to every writable
\* connection registered for r and keeps it registered; a registered
\* connection that is not writable is dropped from r's list, nothing is
\* written to it, and the other recipients' lists are untouched.  A writable
\* connection stays registered whatever happens to the others, so later
\* publishes still reach it.
C25_PublishReachesEveryLiveConnection ==
  /\ [](\A c \in ConnIds : Live(c) => c \in Connections(sockets[c].seller))
  /\ [][\A r \in Recipients :
          Sent(r) =>
            /\ \A c \in Connections(r) :
                  IF Live(c)
                  THEN /\ c \in ConnectionsAfter(r)
                       /\ sockets'[c].log =
                            Append(sockets[c].log,
                                   [n |-> published'.n, note |-> published'.note])
                  ELSE /\ c \notin ConnectionsAfter(r)
                       /\ sockets'[c] = sockets[c]
            /\ ConnectionsAfter(r) \subseteq Connections(r)
            /\ \A q \in Recipients \ {r} : emitters'[q] = emitters[q]]_vars

\* two connections of one recipient, one closed and no longer registered:
\* the last event has been written to the other one, and only to it
C25_SurvivorStillServed ==
  \E c, d \in ConnIds :
     /\ c # d
     /\ sockets[c].seller = sockets[d].seller
     /\ sockets[c].state = "closed"
     /\ c \notin Registered
     /\ Live(d)
     /\ published.n > 0
     /\ Logged(d, LastEvent)
     /\ ~Logged(c, LastEvent)

\* C26: on every connection the sendToSeller events appear by strictly
\* increasing call number: none twice, and in the order of the calls,
\* whatever publishers, heartbeat and reaper do in between.
C26_PerConnectionOrder ==
  \A c \in ConnIds : \A i, j \in DOMAIN sockets[c].log :
     i < j => sockets[c].log[i].n < sockets[c].log[j].n

\* a connection that has been written two events
C26_TwoEventsOnOneConnection ==
  \E c \in ConnIds : Len(sockets[c].log) >= 2

\* the step just taken is a listener of connection c calling removeEmitter
Released(c) == sockets'[c].pending = sockets[c].pending - 1

\* C27: a listener that runs for connection c takes c, and only c, out of
\* the registry and keeps the order of the rest; when c is already out the
\* registry is left as it is.  Once every listener due for a closed
\* connection has run, the connection is not registered.
C27_ReleaseOnEveryTermination ==
  /\ [](\A c \in ConnIds :
          (sockets[c].state = "closed" /\ sockets[c].pending = 0)
             => c \notin Registered)
  /\ [][\A c \in ConnIds :
          Released(c) =>
            /\ \A r \in Recipients :
                  emitters'[r] = SelectSeq(emitters[r], LAMBDA d : d # c)
            /\ c \notin Registered => emitters' = emitters]_vars

\* a closed connection whose listeners have all run is out of the registry
\* while another connection of the same recipient is still registered
C27_ReleasedAndOtherKept ==
  \E c, d \in ConnIds :
     /\ c # d
     /\ sockets[c].state = "closed"
     /\ sockets[c].pending = 0
     /\ c \notin Registered
     /\ sockets[d].seller = sockets[c].seller
     /\ d \in Registered

\* the answers of a failed validation, authorization, lookup or state check
ErrorCodes == {400, 401, 403, 404}

C29_OnlyPartiesChangeOffers ==
  /\ [](\A u \in Users, o \in OfferIds :
          /\ u # offers[o].seller
                => \A a \in Actions : updateOfferStatusBySellerCheck(u, o, a) = 403
          /\ u # offers[o].username
                => /\ concludeOfferByUserCheck(u, o) = 403
                   /\ cancelOfferByUserCheck(u, o) = 403)
  /\ [][\A s \in Slots :
          /\ Admitted(s, "updateOfferStatusBySeller")
                => reqs'[s].caller = offers[reqs'[s].target].seller
          /\ (Admitted(s, "concludeOfferByUser")
                \/ Admitted(s, "cancelOfferByUser"))
                => reqs'[s].caller = offers[reqs'[s].target].username]_vars

\* C30: a read flag once set stays set; the update of markAsRead sets it and
\* answers success; a markAsRead of the owner that finds the row already
\* read answers success too, and a call answered at its lookup writes
\* nothing to the Notification table.
C30_MarkAsReadIdempotent ==
  /\ [](\A n \in DOMAIN inbox :
          inbox[n].read => markAsReadCheck(inbox[n].userId, n) = 200)
  /\ [][/\ \A n \in DOMAIN inbox : inbox[n].read => inbox'[n].read
        /\ \A s \in Slots :
              (At(s, "markAsRead", "update") /\ reqs'[s].op = "none")
                 => /\ inbox'[reqs[s].target].read
                    /\ resp'.code = 200
        /\ reqs' = reqs => inbox' = inbox]_vars

\* a second markAsRead has been answered "already read" on a row that a
\* first call, now returned, had marked
C30_SecondCallAnswered ==
  /\ resp = AnswerRead("already")
  /\ started >= 1
  /\ \A s \in Slots : reqs[s].op = "none"
  /\ \E n \in DOMAIN inbox : inbox[n].read

(* C31: notification mutations are scoped to the owning recipient.  A
   markAsRead or deleteNotification of a row by a user who is not its
   recipient is answered 404 at the lookup, so no handler ever stands before
   a write on a row of another user; and whenever a row changes, the change is
   the write of its recipient's own handler, a markAllAsRead of its recipient
   that sets nothing but read, the passing of time, or the retention sweep. *)
Foreign(u, n) == n \in DOMAIN inbox /\ inbox[n].userId # u

OwnWrite(n) ==
  \E s \in Slots :
    /\ reqs[s].op \in {"markAsRead", "deleteNotification"}
    /\ reqs[s].target = n
    /\ reqs[s].caller = inbox[n].userId
    /\ reqs'[s] = Idle

OwnMarkAll(n) ==
  /\ resp'.op = "markAllAsRead"
  /\ resp'.userId = inbox[n].userId
  /\ inbox'[n] = [inbox[n] EXCEPT !.read = TRUE]

C31_MutationsScopedToRecipient ==
  [][/\ \A u \in Recipients, n \in NoteIds :
          Foreign(u, n) => /\ markAsReadCheck(u, n) = 404
                           /\ deleteNotificationCheck(u, n) = 404
     /\ \A n \in DOMAIN inbox :
          inbox'[n] # inbox[n] =>
            \/ OwnWrite(n)
            \/ OwnMarkAll(n)
            \/ NotificationAgeReached(n)
            \/ cleanupOldNotifications]_vars

\* a user was refused the deletion of a row while every row of the full table
\* belongs to the other recipient, and the rows are all still there
C31_ForeignDeleteRefused ==
  /\ resp = Answer("deleteNotification", 404)
  /\ Len(inbox) = MaxNote
  /\ \A n \in DOMAIN inbox : inbox[n].userId = "seller"

(* C36: the retention sweep deletes exactly the notifications that are read
   and older than the retention age.  A step that removes rows without any
   request handler moving is the sweep; in it a row is gone afterwards
   exactly when it was gone before or was read and old, and every other row,
   unread of any age or read and recent, is left as it was. *)
RetentionStep ==
  /\ reqs' = reqs
  /\ \E n \in DOMAIN inbox : inbox[n] # Deleted /\ inbox'[n] = Deleted

C36_RetentionDeletesReadAndOld ==
  [][RetentionStep =>
       \A n \in DOMAIN inbox :
         IF inbox[n] # Deleted /\ inbox[n].read /\ inbox[n].createdDate = "old"
         THEN inbox'[n] = Deleted
         ELSE inbox'[n] = inbox[n]]_vars

\* with no request ever admitted, a row is gone while an old unread row is
\* still in the table
C36_SweptBesideKeptRow ==
  /\ started = 0
  /\ \E n \in DOMAIN inbox : inbox[n] = Deleted
  /\ \E n \in DOMAIN inbox : ~inbox[n].read /\ inbox[n].createdDate = "old"

(* C32: a failure while a sweep processes one transaction does not abort the
   sweep for the others: when a run of cleanupExpiredTransactions or
   autoCompleteShippedTransactions ends, every transaction it had selected
   behind the one in hand has been transitioned (CANCELLED, COMPLETED). *)
RunEnds(run) == run.pc # "idle"

Behind(run) == {run.queue[i].id : i \in 2..Len(run.queue)}

C32_SweepFailureDoesNotAbort ==
  [][/\ (RunEnds(expire) /\ expire'.pc = "idle") =>
          \A t \in Behind(expire) : transactions'[t].status = "CANCELLED"
     /\ (RunEnds(auto) /\ auto'.pc = "idle") =>
          \A t \in Behind(auto) : transactions'[t].status = "COMPLETED"]_vars

(* C37: COMPLETED is absorbing: once the status of a transaction is
   COMPLETED, no step of any operation changes it to another value. *)
C37_CompletedIsAbsorbing ==
  [][\A t \in TxIds :
       transactions[t].status = "COMPLETED" =>
         transactions'[t].status = "COMPLETED"]_vars

(* C39: a transaction cancel never revives a withdrawn or restarted
   negotiation: when the offer update of cancelTransaction runs while the
   offer of the transaction is CANCELLED, DENIED or PENDING, the offer is not
   ACCEPTED afterwards. *)
Withdrawn == {"CANCELLED", "DENIED", "PENDING"}

C39_CancelDoesNotReviveOffer ==
  [][\A s \in Slots :
       (At(s, "cancelTransaction", "offer") /\ reqs'[s].pc = "notify") =>
         LET o == transactions[reqs[s].target].offerId
         IN offers[o].status \in Withdrawn => offers'[o].status # "ACCEPTED"]_vars

(* C38: an article is sold at most once: once boughtBy of the article is set,
   no later step sets it to a different buyer. *)
C38_SoldAtMostOnce ==
  [][article.boughtBy # "none" => article'.boughtBy = article.boughtBy]_vars

(* C33: the heartbeat timer is active only while at least one connection is
   registered: in every reachable state, heartbeat running implies that the
   registry holds at least one connection. *)
C33_HeartbeatOnlyWhileRegistered ==
  heartbeatInterval => Registered # {}

(* C34: the registry never holds a recipient entry with an empty connection
   set: every key of the Map has at least one connection in its array, and
   the Map holds no array outside its keys; and a sendToSeller for a
   recipient that has no entry returns false and changes nothing in the
   registry. *)
C34_NoEmptyEntry ==
  /\ [](\A r \in Recipients : r \in keys <=> emitters[r] # <<>>)
  /\ [][\A r \in Recipients :
          (Sent(r) /\ r \notin keys) =>
             /\ ~published'.sent
             /\ UNCHANGED <<emitters, sockets, keys, heartbeatInterval,
                            lastPing>>]_vars

\* a sendToSeller has returned false for the seller, who never subscribed,
\* while the buyer's entry holds every connection there is
C34_AbsentKeyAnsweredFalse ==
  /\ published.n > 0
  /\ published.seller = "seller"
  /\ ~published.sent
  /\ \A c \in ConnIds : sockets[c].seller = "buyer"
  /\ keys = {"buyer"}
  /\ Len(emitters["buyer"]) = MaxConn

(* C35: after each run of cleanupStaleConnections no connection whose
   lastPing is older than the threshold remains in the registry: every such
   connection has been ended and removed, and every connection with a more
   recent lastPing is kept, in its place in the array and unchanged. *)
C35_ReaperRemovesExactlyTheStale ==
  [][cleanupStaleConnections =>
       /\ \A c \in Registered :
            IF IsStale(c)
            THEN /\ \A r \in Recipients : c \notin ConnectionsAfter(r)
                 /\ sockets'[c].state = "closed"
            ELSE /\ c \in ConnectionsAfter(sockets[c].seller)
                 /\ sockets'[c] = sockets[c]
                 /\ lastPing'[c] = lastPing[c]
       /\ \A r \in Recipients :
            emitters'[r] = SelectSeq(emitters[r], LAMBDA c : ~IsStale(c))]_vars

\* the reaper has ended the seller's stale connection, which was open, and
\* the buyer's connection, written more recently, is registered and open
C35_StaleEndedFreshKept ==
  /\ \E c \in ConnIds : /\ sockets[c].seller = "seller"
                        /\ sockets[c].state = "closed"
                        /\ sockets[c].pending = 1
                        /\ c \notin Registered
  /\ \E c \in ConnIds : /\ sockets[c].seller = "buyer"
                        /\ Live(c)
                        /\ c \in Connections("buyer")
                        /\ lastPing[c] = "fresh"
  /\ published.n = 0

(* C40: whenever at least one connection is registered the heartbeat timer
   is running, also after the registry has emptied and filled again. *)
C40_RegisteredImpliesHeartbeat ==
  Registered # {} => heartbeatInterval

\* the seller's first connection is gone and a sendToSeller for the seller
\* has returned false on the emptied registry; the seller's second
\* connection, added after that call, is registered with the timer running
C40_RefilledWithHeartbeat ==
  /\ published.n > 0 /\ published.seller = "seller" /\ ~published.sent
  /\ sockets[1].seller = "seller" /\ sockets[1].state = "closed"
  /\ sockets[2].seller = "seller" /\ Live(2) /\ sockets[2].log = <<>>
  /\ Registered = {2}
  /\ \A c \in ConnIds : c > 2 => sockets[c].state = "unused"
  /\ heartbeatInterval

====
